---- MODULE Spec2Model ----
(***************************************************************************)
(* DeckFlix: search ranking (app.js), catalog merging, swarm-stream        *)
(* resolution and external player launch (Rust backend, as documented in   *)
(* the repository), modelled as state machines.                            *)
(*                                                                         *)
(* Strings are sequences of one-character strings, so that toLowerCase,    *)
(* trim, startsWith, includes, split and the regular expressions of the    *)
(* code are computed character by character.                               *)
(***************************************************************************)
EXTENDS Integers, Sequences, FiniteSets, TLC

VARIABLES
    \* ---- ranking (app.js processSearchResults) ----
    searchTerm,       \* the query handed to processSearchResults
    results,          \* the raw result list handed to processSearchResults
    filteredResults,  \* the scored, filtered and sorted list (app.js:800-818)
    groupedResults,   \* the list processSearchResults returns
    rankPc,           \* "input" before the call, "done" after it
    \* ---- play_video_external (Rust backend), one entry per invocation ----
    callPc,           \* where the invocation stands
    callUrl,          \* its stream_url
    callHash,         \* the hash extract_torrent_hash gave it
    callResult,       \* what it returned: [ok, value]
    pollAttempts,     \* look-ups of the hash directory it has made
    videoPath,        \* the video file it found, <<>> when none
    spawnLog,         \* the player candidates it tried to spawn, in order
    streamerHolder,   \* the invocation holding state.streamer's lock, 0 if free
    peerflix_process, \* TorrentStreamer.peerflix_process: a process or 0 (None)
    running,          \* the swarm-helper processes that are running
    stopped,          \* the running processes the start_stream in progress terminated
    installed,        \* the player candidates whose spawn succeeds
    \* ---- AddonClient.fetch_popular_movies (multi-source fetch) ----
    responses,        \* what each addon answers: [ok, value], value a list of ids
    all_movies,       \* the list being built
    fetchIndex,       \* the addon the loop is at
    catPc,            \* "fetch", then "merge", then "done"
    \* ---- AddonClient.fetch_popular_movies (prioritized fetch) ----
    popResponses,     \* what each addon answers: [ok, value]
    pop_movies,       \* all_movies of fetch_popular_movies
    popIndex,         \* the addon the loop is at (from 1)
    popQueried,       \* the addons queried so far, in order
    popResult,        \* what fetch_popular_movies returned: [ok, value]
    popPc,            \* "fetch", then "return", then "done"
    \* ---- AddonClient.search_content ----
    searchResponses,  \* what each addon answers to the two searches
    all_results,      \* the list being built
    searchIndex,      \* the addon the loop is at (from 1)
    searchResult,     \* what search_content returned: [ok, value]
    searchPc,         \* "search", then "detect", then "done"
    \* ---- extract_torrent_hash alone ----
    magnet_link,      \* its argument
    hashResult,       \* its result: [ok, value]
    hashPc,           \* "input" before the call, "done" after it
    \* ---- the media title of play_video_external alone ----
    titleMeta,        \* the metadata argument: [title, year], year an Option
    mediaTitle,       \* the title computed for the player
    titlePc,          \* "input" before the computation, "done" after it
    \* ---- frontend: stream selection and playback (app.js) ----
    currentContent,   \* appState.currentContent: a content or NoContent (null)
    currentStreams,   \* appState.currentStreams
    modalOpen,        \* the stream modal is shown
    modalPane,        \* its visible parts, among "loading", "list" and "error"
    streamFetches,    \* fetch_streams invocations awaiting their response
    currentStreamUrl, \* window.currentStreamUrl, <<>> when null
    playInvokes,      \* play_video_external invocations awaiting their response
    invokeLog,        \* every play_video_external request issued, in order
    videoModal,       \* the video player modal: "hidden", "loading", "playing", "error"
    videoTitle,       \* elements.videoTitle.textContent
    uiMessage,        \* the status or error message last shown
    selectCount,      \* selections made so far
    \* ---- preprocessSearchTerm alone ----
    termQuery,        \* the argument
    termProcessed,    \* the value returned
    termPc,           \* "input" before the call, "done" after it
    \* ---- frontend: the search box (app.js:444-634) ----
    now,              \* the time, in units of 100 ms
    inputValue,       \* elements.searchInput.value
    searchQuery,      \* appState.searchQuery
    searchTimeout,    \* appState.searchTimeout: a timer id, 0 when null
    timers,           \* the timers set and neither fired nor cleared
    timerCount,       \* timers created so far
    lastInputAt,      \* the time of the last input event
    searchCalls,      \* the search_content invocations issued, in order
    inFlight,         \* the invocations awaiting their response
    searchResults,    \* appState.searchResults
    isSearching,      \* appState.isSearching
    searchSection,    \* the search section: "hidden" or "shown"
    inputCount,       \* input events so far
    \* ---- frontend: loading the three sections (app.js:900-1095) ----
    isLoading,        \* appState.isLoading
    globalLoading,    \* the global loading indicator is shown
    allPc,            \* loadAllContent: "idle", "waiting" (allSettled), "done"
    secPc,            \* per section: "idle", "fetching", "retryScheduled", "settled"
    secPanel,         \* per section: its visible parts among "loading", "grid", "error"
    secRetryCount,    \* per section: the retryCount of the running call
    secFetches,       \* per section: fetches issued since the section was last started
    secDelays,        \* per section: the retry delays scheduled since then, in ms
    secLast,          \* per section: the last response received
    secPromise,       \* per section: the promise loadAllContent waits for
    reloads,          \* clicks on a section's retry button so far
    \* ---- GamepadController (controller.js) ----
    gamepads,         \* this.gamepads: per index, the gamepad object held
    buttonStates,     \* this.buttonStates: per index, the states last recorded
    pressLog,         \* every handleButtonPress call made, in order
    polled,           \* per poll, what processButtons read for each index
    \* ---- the continue-watching list (app.js:1752-1774) ----
    continueWatching, \* appState.continueWatching
    cwAdds            \* addToContinueWatching calls so far

rankVars == <<searchTerm, results, filteredResults, groupedResults, rankPc>>

playVars == <<callPc, callUrl, callHash, callResult, pollAttempts, videoPath,
              spawnLog, streamerHolder, peerflix_process, running, stopped,
              installed>>

hashVars == <<magnet_link, hashResult, hashPc>>

popVars == <<popResponses, pop_movies, popIndex, popQueried, popResult, popPc>>

searchVars == <<searchResponses, all_results, searchIndex, searchResult, searchPc>>

catVars == <<responses, all_movies, fetchIndex, catPc, popVars, searchVars>>

titleVars == <<titleMeta, mediaTitle, titlePc>>

frontVars == <<currentContent, currentStreams, modalOpen, modalPane,
               streamFetches, currentStreamUrl, playInvokes, invokeLog,
               videoModal, videoTitle, uiMessage, selectCount>>

termVars == <<termQuery, termProcessed, termPc>>

inputVars == <<now, inputValue, searchQuery, searchTimeout, timers, timerCount,
               lastInputAt, searchCalls, inFlight, searchResults, isSearching,
               searchSection, inputCount>>

loadVars == <<isLoading, globalLoading, allPc, secPc, secPanel, secRetryCount,
              secFetches, secDelays, secLast, secPromise, reloads>>

padVars == <<gamepads, buttonStates, pressLog, polled>>

cwVars == <<continueWatching, cwAdds>>

lateVars == <<padVars, cwVars>>

\* the variables of the specifications further down
extVars == <<termVars, inputVars, loadVars, lateVars>>

vars == <<rankVars, playVars, hashVars, catVars, titleVars, frontVars, extVars>>

-----------------------------------------------------------------------------
(* Bounds of the model *)

\* longest raw result list handed to processSearchResults
MaxResults == 3

\* invocations of play_video_external that may overlap
MaxCalls == 2

\* look-ups of the hash directory before the resolver gives up
MaxPollAttempts == 2

\* longest text after the prefix of a descriptor given to extract_torrent_hash
MaxHashLen == 3

\* addons in base_urls
MaxProviders == 2

\* longest listing an addon returns
MaxListing == 2

\* addons in base_urls of fetch_popular_movies and search_content
MaxAddons == 3

\* longest title given to the media title computation
MaxTitleLen == 2

\* leading articles of a query given to preprocessSearchTerm
MaxArticles == 2

\* input events in the search box
MaxInputs == 3

\* the time up to which the search box is followed, in units of 100 ms
MaxTime == 6

\* clicks on the retry button of a section
MaxReloads == 1

\* selections of a content the user makes
MaxSelects == 2

\* play_video_external requests the frontend issues
MaxInvokes == 2

-----------------------------------------------------------------------------
(* Strings *)

UpperChars == <<"A","B","C","D","E","F","G","H","I","J","K","L","M",
                "N","O","P","Q","R","S","T","U","V","W","X","Y","Z">>
LowerChars == <<"a","b","c","d","e","f","g","h","i","j","k","l","m",
                "n","o","p","q","r","s","t","u","v","w","x","y","z">>
DigitChars == <<"0","1","2","3","4","5","6","7","8","9">>

\* String.prototype.toLowerCase on one character
LowerChar(c) ==
    IF \E i \in 1..26 : UpperChars[i] = c
    THEN LowerChars[CHOOSE i \in 1..26 : UpperChars[i] = c]
    ELSE c

\* String.prototype.toLowerCase
ToLowerCase(s) == [i \in 1..Len(s) |-> LowerChar(s[i])]

IsSpace(c) == c = " "

\* String.prototype.trim (the only white space of the model is the blank)
RECURSIVE TrimStart(_)
TrimStart(s) ==
    IF s # <<>> /\ IsSpace(Head(s)) THEN TrimStart(Tail(s)) ELSE s

RECURSIVE TrimEnd(_)
TrimEnd(s) ==
    IF s # <<>> /\ IsSpace(s[Len(s)])
    THEN TrimEnd(SubSeq(s, 1, Len(s) - 1))
    ELSE s

Trim(s) == TrimEnd(TrimStart(s))

\* whether pat occurs in s at position i (1-based)
MatchAt(s, pat, i) ==
    /\ i >= 1
    /\ i + Len(pat) - 1 <= Len(s)
    /\ \A k \in 1..Len(pat) : s[i + k - 1] = pat[k]

\* String.prototype.startsWith
StartsWith(s, pat) == MatchAt(s, pat, 1)

\* String.prototype.includes
Includes(s, pat) == \E i \in 1..(Len(s) + 1) : MatchAt(s, pat, i)

\* String.prototype.indexOf, 0 when absent (1-based positions)
IndexOf(s, pat) ==
    IF Includes(s, pat)
    THEN CHOOSE i \in 1..(Len(s) + 1) :
            /\ MatchAt(s, pat, i)
            /\ \A j \in 1..(i - 1) : ~MatchAt(s, pat, j)
    ELSE 0

IsDigit(c) == \E i \in 1..10 : DigitChars[i] = c

DigitValue(c) == (CHOOSE i \in 1..10 : DigitChars[i] = c) - 1

\* the value of the longest prefix of digits of s, acc being the value so far
RECURSIVE DigitsValue(_, _)
DigitsValue(s, acc) ==
    IF s # <<>> /\ IsDigit(Head(s))
    THEN DigitsValue(Tail(s), 10 * acc + DigitValue(Head(s)))
    ELSE acc

\* parseInt(s) || dflt : leading white space skipped, then the longest
\* prefix of digits; NaN (no digit) and 0 are both falsy and give dflt
ParseIntOr(s, dflt) ==
    LET t == TrimStart(s)
        v == IF t # <<>> /\ IsDigit(Head(t)) THEN DigitsValue(t, 0) ELSE 0
    IN  IF v = 0 THEN dflt ELSE v

\* the string after its longest prefix of digits
RECURSIVE SkipDigits(_)
SkipDigits(s) ==
    IF s # <<>> /\ IsDigit(Head(s)) THEN SkipDigits(Tail(s)) ELSE s

\* parseFloat(s) || 0, in tenths: integer part, then at most one decimal
\* (the ratings of the catalog have one decimal)
ParseFloatTenths(s) ==
    LET t    == TrimStart(s)
        ip   == DigitsValue(t, 0)
        rest == SkipDigits(t)
        frac == IF Len(rest) >= 2 /\ rest[1] = "." /\ IsDigit(rest[2])
                THEN DigitValue(rest[2]) ELSE 0
    IN  IF t # <<>> /\ IsDigit(Head(t)) THEN 10 * ip + frac ELSE 0

-----------------------------------------------------------------------------
(* Search ranking: app.js:636-897 *)

Str_the == <<"t","h","e">>
Str_a == <<"a">>
Str_an == <<"a","n">>

\* processed.replace(/^(the|a|an)\s+/i, ''): the first alternative that is
\* followed by white space is removed together with that white space
StripArticle(s) ==
    LET After(art) == SubSeq(s, Len(art) + 1, Len(s))
        Hit(art)   == /\ StartsWith(s, art)
                      /\ Len(s) > Len(art)
                      /\ IsSpace(s[Len(art) + 1])
    IN  IF Hit(Str_the) THEN TrimStart(After(Str_the))
        ELSE IF Hit(Str_a) THEN TrimStart(After(Str_a))
        ELSE IF Hit(Str_an) THEN TrimStart(After(Str_an))
        ELSE s

\* Object, the value of pluralMap['constructor'], as the one token its
\* conversion to a string gives
ObjectConstructor == <<"function Object() { [native code] }">>

\* the plural table of preprocessSearchTerm: processed becomes
\* pluralMap[processed] when that is truthy.  pluralMap is an object
\* literal, so the lookup also finds the properties it inherits, of which
\* 'constructor' is the lower-case word.
pluralMap(s) ==
    CASE s = <<"c","a","r","s">> -> <<"c","a","r">>
      [] s = <<"c","o","n","s","t","r","u","c","t","o","r">> -> ObjectConstructor
      [] s = <<"m","o","v","i","e","s">> -> <<"m","o","v","i","e">>
      [] s = <<"s","h","o","w","s">> -> <<"s","h","o","w">>
      [] s = <<"s","e","r","i","e","s">> -> <<"s","e","r","i","e","s">>
      [] OTHER -> s

preprocessSearchTerm(term) ==
    IF term = <<>> THEN <<>>
    ELSE pluralMap(StripArticle(Trim(ToLowerCase(term))))

\* mutant of TermScore: the test for the "the " prefix left out
TermScoreNoThe(title, term) ==
    IF title = term THEN 100
    ELSE IF StartsWith(title, term) THEN 90
    ELSE IF StartsWith(title, term \o <<" ">>) THEN 85
    ELSE IF Includes(title, <<" ">> \o term \o <<" ">>) THEN 80
    ELSE IF Includes(title, term) THEN 70
    ELSE 0

\* one pass of the loop of calculateRelevanceScore for one term
TermScore(title, term) ==
    IF title = term THEN 100
    ELSE IF StartsWith(title, term) THEN 90
    ELSE IF StartsWith(title, Str_the \o <<" ">> \o term) THEN 90
    ELSE IF StartsWith(title, term \o <<" ">>) THEN 85
    ELSE IF Includes(title, <<" ">> \o term \o <<" ">>) THEN 80
    ELSE IF Includes(title, term) THEN 70
    ELSE 0

\* the query, as the head of a pattern, matches t at position i: a dot
\* matches any character, any other character itself
QueryMatchAt(t, q, i) ==
    /\ i >= 1
    /\ i + Len(q) - 1 <= Len(t)
    /\ \A k \in 1..Len(q) : q[k] = "." \/ t[i + k - 1] = q[k]

\* length of the run of character c in s from position i on
RECURSIVE RunLen(_, _, _)
RunLen(s, c, i) ==
    IF i <= Len(s) /\ s[i] = c THEN 1 + RunLen(s, c, i + 1) ELSE 0

\* The five patterns of detectFranchiseBoost.  They are built with template
\* literals, in which \s and \d are the letters s and d, so that they are
\*   q s+ d+ ,  q s+ i i+ ,  q s* : s* ,  q s* - s* ,  q .* s+ (film|movie)
\* with q the lower-cased query, itself read as a pattern: of the regex
\* operators the queries here have the dot alone.
SequelPatternNumber(t, q) ==
    \E i \in 1..Len(t) :
        /\ QueryMatchAt(t, q, i)
        /\ LET n == RunLen(t, "s", i + Len(q))
           IN  n >= 1 /\ MatchAt(t, <<"d">>, i + Len(q) + n)

SequelPatternRoman(t, q) ==
    \E i \in 1..Len(t) :
        /\ QueryMatchAt(t, q, i)
        /\ LET n == RunLen(t, "s", i + Len(q))
           IN  n >= 1 /\ MatchAt(t, <<"i","i">>, i + Len(q) + n)

SequelPatternColon(t, q) ==
    \E i \in 1..Len(t) :
        /\ QueryMatchAt(t, q, i)
        /\ MatchAt(t, <<":">>, i + Len(q) + RunLen(t, "s", i + Len(q)))

SequelPatternDash(t, q) ==
    \E i \in 1..Len(t) :
        /\ QueryMatchAt(t, q, i)
        /\ MatchAt(t, <<"-">>, i + Len(q) + RunLen(t, "s", i + Len(q)))

SequelPatternFilm(t, q) ==
    \E i \in 1..Len(t) :
        /\ QueryMatchAt(t, q, i)
        /\ \E j \in (i + Len(q))..Len(t) :
              \/ MatchAt(t, <<"s","f","i","l","m">>, j)
              \/ MatchAt(t, <<"s","m","o","v","i","e">>, j)

detectFranchiseBoost(title, term) ==
    LET q == ToLowerCase(term)
        t == ToLowerCase(title)
    IN  IF \/ SequelPatternNumber(t, q)
           \/ SequelPatternRoman(t, q)
           \/ SequelPatternColon(t, q)
           \/ SequelPatternDash(t, q)
           \/ SequelPatternFilm(t, q)
        THEN 15 ELSE 0

Max(a, b) == IF a >= b THEN a ELSE b

calculateRelevanceScore(movie, term) ==
    LET title           == Trim(ToLowerCase(movie.name))
        originalSearch  == Trim(ToLowerCase(term))
        processedSearch == preprocessSearchTerm(term)
        s1 == IF originalSearch # <<>> THEN TermScore(title, originalSearch) ELSE 0
        s2 == IF processedSearch # <<>> THEN TermScore(title, processedSearch) ELSE 0
    IN  Max(s1, s2) + detectFranchiseBoost(title, originalSearch)

\* new Date().getFullYear()
CurrentYear == 2026

\* getSecondaryScore, in tenths (the year term is a multiple of 0.5, the
\* rating has one decimal)
getSecondaryScore(movie) ==
    LET year   == ParseIntOr(movie.year, 0)
        ys     == IF year > 0 THEN Max(0, 200 - 5 * (CurrentYear - year)) ELSE 0
        rating == ParseFloatTenths(movie.imdb_rating)
        ts     == CASE movie.content_type = "movie" -> 20
                    [] movie.content_type = "series" -> 10
                    [] movie.content_type = "anime" -> 10
                    [] OTHER -> 0
    IN  ys + rating + ts

\* Array.prototype.sort with a consistent comparator: the stable sort that
\* puts a before b when Less(a, b) and keeps the order of a and b when
\* neither Less(a, b) nor Less(b, a)
StableSort(s, Less(_, _)) ==
    LET n == Len(s)
        pos(i) == Cardinality({j \in 1..n :
                      \/ Less(s[j], s[i])
                      \/ (~Less(s[i], s[j]) /\ j < i)}) + 1
    IN  [p \in 1..n |-> s[CHOOSE i \in 1..n : pos(i) = p]]

\* mutant of FilterScore: the filter of app.js:800 left out
FilterScoreNone(s) == s

\* Array.prototype.filter
RECURSIVE FilterScore(_)
FilterScore(s) ==
    IF s = <<>> THEN <<>>
    ELSE IF Head(s).relevanceScore >= 10
         THEN <<Head(s)>> \o FilterScore(Tail(s))
         ELSE FilterScore(Tail(s))

(* Inputs of the ranking: queries and catalog items *)

\* queries as handleSearchInput hands them on: trimmed and not empty
Queries ==
    { <<"C","a","r","s">>,
      <<"t","h","e"," ","c","a","r","s">> }

\* queries with a character that is an operator in a regular expression
PatternQueries == { <<"c",".","r","s">> }

Item(id, name, year, rating, type) ==
    [id |-> id, name |-> name, year |-> year, imdb_rating |-> rating,
     content_type |-> type]

Y2006 == <<"2","0","0","6">>
Y2011 == <<"2","0","1","1">>
Y2017 == <<"2","0","1","7">>
Y2020 == <<"2","0","2","0">>

\* raw items a provider may return for these queries
ItemPool ==
    { Item("tt1", <<"C","a","r","s">>, Y2006, <<"7",".","2">>, "movie"),
      Item("tt2", <<"C","a","r","s"," ","2">>, Y2011, <<"6",".","2">>, "movie"),
      Item("tt3", <<"C","a","r","s"," ","3">>, Y2017, <<"6",".","7">>, "movie"),
      Item("tt4", <<"R","a","c","e"," ","C","a","r","s"," ","W","e","e","k","l","y">>,
           <<>>, <<>>, "series"),
      Item("tt5", <<"c","a","r","s">>, Y2020, <<"7",".","2">>, "series"),
      Item("tt6", <<"C","a","r"," ","W","a","s","h">>, <<"1","9","7","6">>,
           <<"6",".","1">>, "movie"),
      Item("tt7", <<"T","h","e"," ","C","a","r","s",":"," ","L","i","v","e">>,
           <<"1","9","8","4">>, <<>>, "movie"),
      Item("tt8", <<"P","l","a","n","e","s">>, <<"2","0","1","3">>,
           <<"5",".","7">>, "movie"),
      Item("tt9", <<"R","a","c","e"," ","C","a","r","s"," ","-"," ","U","n","c","u","t">>,
           Y2020, <<"8",".","0">>, "anime"),
      Item("tt10", <<"C","a","r","s"," ","T","o","o","n">>, <<"N","/","A">>,
           <<"7",".","2">>, "series"),
      Item("tt11", <<" ","C","a","r","s",":"," ","T","o","o","n","s">>,
           <<"2","0","1","2">>, <<"6",".","9">>, "series") }

\* the sequences over S of length 1..n
SeqsUpTo(S, n) == UNION {[1..k -> S] : k \in 1..n}

\* calculateRelevanceScore and getSecondaryScore read nothing but their
\* arguments: their values for the queries and items above, computed once
relevanceScoreOf ==
    [q \in Queries \cup PatternQueries |->
        [m \in ItemPool |-> calculateRelevanceScore(m, q)]]

secondaryScoreOf == [m \in ItemPool |-> getSecondaryScore(m)]

\* the record processSearchResults makes of a raw item (app.js:787-797)
ScoreResult(movie, index, term) ==
    [id |-> movie.id, name |-> movie.name, year |-> movie.year,
     imdb_rating |-> movie.imdb_rating, content_type |-> movie.content_type,
     relevanceScore |-> relevanceScoreOf[term][movie],
     secondaryScore |-> secondaryScoreOf[movie],
     originalIndex |-> index - 1]

\* mutant of RankLess: the secondary score left out of the comparison
RankLessNoSecondary(a, b) ==
    IF b.relevanceScore # a.relevanceScore
    THEN b.relevanceScore - a.relevanceScore < 0
    ELSE a.originalIndex - b.originalIndex < 0

\* the comparator of filteredResults.sort (app.js:805-818)
RankLess(a, b) ==
    IF b.relevanceScore # a.relevanceScore
    THEN b.relevanceScore - a.relevanceScore < 0
    ELSE IF b.secondaryScore # a.secondaryScore
         THEN b.secondaryScore - a.secondaryScore < 0
         ELSE a.originalIndex - b.originalIndex < 0

\* scoring, filter and sort of processSearchResults (app.js:787-818)
SortedFiltered(res, term) ==
    StableSort(FilterScore([i \in 1..Len(res) |-> ScoreResult(res[i], i, term)]),
            RankLess)

\* titleLower.split(/[:\-]/)[0]
RECURSIVE FirstPart(_)
FirstPart(t) ==
    IF t = <<>> \/ Head(t) = ":" \/ Head(t) = "-" THEN <<>>
    ELSE <<Head(t)>> \o FirstPart(Tail(t))

\* the franchise key of a result of that name, <<>> when there is none
\* (app.js:846-860)
FranchiseKeyOfName(name, term) ==
    LET titleLower  == ToLowerCase(name)
        searchLower == ToLowerCase(term)
        part0       == FirstPart(titleLower)
    IN  IF StartsWith(titleLower, searchLower) THEN searchLower
        ELSE IF /\ Includes(titleLower, searchLower)
                /\ Len(part0) < Len(titleLower)
                /\ Includes(part0, searchLower)
             THEN Trim(part0)
             ELSE <<>>

\* the keys for the queries and names above, computed once
franchiseKeyOf ==
    [q \in Queries \cup PatternQueries |->
        [n \in {m.name : m \in ItemPool} |-> FranchiseKeyOfName(n, q)]]

FranchiseKey(result, term) == franchiseKeyOf[term][result.name]

\* the results of s at the positions idx, in order
SelectAt(s, idx) ==
    LET nth(p) == CHOOSE i \in idx : Cardinality({j \in idx : j < i}) = p - 1
    IN  [p \in 1..Cardinality(idx) |-> s[nth(p)]]

RECURSIVE SumScore(_)
SumScore(s) ==
    IF s = <<>> THEN 0 ELSE Head(s).relevanceScore + SumScore(Tail(s))

\* mutant of GroupLess: lowest average first
GroupLessAscending(a, b) ==
    SumScore(a) * Len(b) < SumScore(b) * Len(a)

\* the comparator of the group sort, avgScoreB - avgScoreA < 0 (app.js:876-880);
\* the averages are compared as fractions
GroupLess(a, b) ==
    SumScore(b) * Len(a) < SumScore(a) * Len(b)

\* mutant of YearLess: newest first
YearLessNewestFirst(a, b) ==
    ParseIntOr(b.year, 9999) - ParseIntOr(a.year, 9999) < 0

\* the comparator of the sort inside a group (app.js:884-888)
YearLess(a, b) ==
    ParseIntOr(a.year, 9999) - ParseIntOr(b.year, 9999) < 0

\* mutant of Flatten: the first group alone
FlattenFirstGroup(ss) ==
    IF ss = <<>> THEN <<>> ELSE Head(ss)

RECURSIVE Flatten(_)
Flatten(ss) ==
    IF ss = <<>> THEN <<>> ELSE Head(ss) \o Flatten(Tail(ss))

\* mutant of groupFranchiseResults: the standalone results pushed first
groupFranchiseResultsStandaloneFirst(s, term) ==
    LET key    == [i \in 1..Len(s) |-> FranchiseKey(s[i], term)]
        first  == {i \in 1..Len(s) :
                     key[i] # <<>> /\ \A j \in 1..(i - 1) : key[j] # key[i]}
        groups == [g \in 1..Cardinality(first) |->
                     LET f == SelectAt([i \in 1..Len(s) |-> i], first)[g]
                     IN  SelectAt(s, {i \in 1..Len(s) : key[i] = key[f]})]
        sortedGroups == StableSort(groups, GroupLess)
        standalone   == SelectAt(s, {i \in 1..Len(s) : key[i] = <<>>})
    IN  standalone \o Flatten([k \in 1..Len(sortedGroups) |->
                    StableSort(sortedGroups[k], YearLess)])

\* groups is the Map of app.js:840 as the list of its values in insertion
\* order: a key enters the Map at the first result that has it
groupFranchiseResults(s, term) ==
    LET key    == [i \in 1..Len(s) |-> FranchiseKey(s[i], term)]
        first  == {i \in 1..Len(s) :
                     key[i] # <<>> /\ \A j \in 1..(i - 1) : key[j] # key[i]}
        groups == [g \in 1..Cardinality(first) |->
                     LET f == SelectAt([i \in 1..Len(s) |-> i], first)[g]
                     IN  SelectAt(s, {i \in 1..Len(s) : key[i] = key[f]})]
        sortedGroups == StableSort(groups, GroupLess)
        standalone   == SelectAt(s, {i \in 1..Len(s) : key[i] = <<>>})
    IN  Flatten([k \in 1..Len(sortedGroups) |->
                    StableSort(sortedGroups[k], YearLess)]) \o standalone

-----------------------------------------------------------------------------
(* The backend at rest *)

Calls == 1..MaxCalls

\* no value returned yet
Pending == [ok |-> FALSE, value |-> "pending"]

PlayIdle ==
    /\ callPc = [c \in Calls |-> "idle"]
    /\ callUrl = [c \in Calls |-> <<>>]
    /\ callHash = [c \in Calls |-> <<>>]
    /\ callResult = [c \in Calls |-> Pending]
    /\ pollAttempts = [c \in Calls |-> 0]
    /\ videoPath = [c \in Calls |-> <<>>]
    /\ spawnLog = [c \in Calls |-> <<>>]
    /\ streamerHolder = 0
    /\ peerflix_process = 0
    /\ running = {}
    /\ stopped = {}

HashIdle ==
    /\ magnet_link = <<>>
    /\ hashResult = Pending
    /\ hashPc = "input"

\* no metadata (None of an Option is the empty sequence, Some(x) is <<x>>)
NoMetadata == [title |-> <<>>, year |-> <<>>]

TitleIdle ==
    /\ titleMeta = NoMetadata
    /\ mediaTitle = <<>>
    /\ titlePc = "input"

TermIdle ==
    /\ termQuery = <<>>
    /\ termProcessed = <<>>
    /\ termPc = "input"

InputIdle ==
    /\ now = 0
    /\ inputValue = <<>>
    /\ searchQuery = <<>>
    /\ searchTimeout = 0
    /\ timers = {}
    /\ timerCount = 0
    /\ lastInputAt = 0
    /\ searchCalls = <<>>
    /\ inFlight = {}
    /\ searchResults = <<>>
    /\ isSearching = FALSE
    /\ searchSection = "hidden"
    /\ inputCount = 0

Sections == {"movies", "series", "anime"}

LoadIdle ==
    /\ isLoading = FALSE
    /\ globalLoading = FALSE
    /\ allPc = "idle"
    /\ secPc = [s \in Sections |-> "idle"]
    /\ secPanel = [s \in Sections |-> {}]
    /\ secRetryCount = [s \in Sections |-> 0]
    /\ secFetches = [s \in Sections |-> 0]
    /\ secDelays = [s \in Sections |-> <<>>]
    /\ secLast = [s \in Sections |-> Pending]
    /\ secPromise = [s \in Sections |-> "none"]
    /\ reloads = 0

\* gamepad indices
Pads == {0, 1}

\* nothing held at an index (undefined, null); what is held is <<x>>
NoGamepad == <<>>

PadIdle ==
    /\ gamepads = [p \in Pads |-> NoGamepad]
    /\ buttonStates = [p \in Pads |-> NoGamepad]
    /\ pressLog = <<>>
    /\ polled = <<>>

CwIdle ==
    /\ continueWatching = <<>>
    /\ cwAdds = 0

LateIdle == PadIdle /\ CwIdle

ExtIdle == TermIdle /\ InputIdle /\ LoadIdle /\ LateIdle

\* appState.currentContent = null
NoContent == [id |-> "", name |-> "", year |-> "", type |-> ""]

FrontIdle ==
    /\ currentContent = NoContent
    /\ currentStreams = <<>>
    /\ modalOpen = FALSE
    /\ modalPane = {}
    /\ streamFetches = {}
    /\ currentStreamUrl = <<>>
    /\ playInvokes = {}
    /\ invokeLog = <<>>
    /\ videoModal = "hidden"
    /\ videoTitle = <<>>
    /\ uiMessage = "none"
    /\ selectCount = 0

PopularIdle ==
    /\ popResponses = <<>>
    /\ pop_movies = <<>>
    /\ popIndex = 1
    /\ popQueried = <<>>
    /\ popResult = Pending
    /\ popPc = "fetch"

SearchIdle ==
    /\ searchResponses = <<>>
    /\ all_results = <<>>
    /\ searchIndex = 1
    /\ searchResult = Pending
    /\ searchPc = "search"

CatIdle ==
    /\ responses = <<>>
    /\ all_movies = <<>>
    /\ fetchIndex = 1
    /\ catPc = "fetch"
    /\ PopularIdle
    /\ SearchIdle

RankIdle ==
    /\ searchTerm = <<>>
    /\ results = <<>>
    /\ filteredResults = <<>>
    /\ groupedResults = <<>>
    /\ rankPc = "input"

-----------------------------------------------------------------------------
(* The ranking as a state machine *)

InitRank ==
    /\ searchTerm \in Queries
    /\ results \in SeqsUpTo(ItemPool, MaxResults)
    /\ filteredResults = <<>>
    /\ groupedResults = <<>>
    /\ rankPc = "input"
    /\ PlayIdle /\ installed = {}
    /\ HashIdle
    /\ TitleIdle
    /\ ExtIdle
    /\ FrontIdle
    /\ CatIdle

\* the raw items with the scores written into them
RawAfterScoringInPlace(res, term) ==
    [i \in 1..Len(res) |-> ScoreResult(res[i], i, term)]

\* the raw list after the call: results.map builds a new array of new
\* objects ({...movie, ...}), filter a new array, and the two sorts act on
\* these new arrays (app.js:786-818, 878-886)
RawAfterScoring(res, term) == res

\* const rankedResults = processSearchResults(results, query)  (app.js:574)
ProcessSearchResults ==
    /\ rankPc = "input"
    /\ results' = RawAfterScoring(results, searchTerm)
    /\ \E sorted \in {SortedFiltered(results, searchTerm)} :
          /\ filteredResults' = sorted
          /\ groupedResults' = IF Len(results) = 0 THEN <<>>
                               ELSE groupFranchiseResults(sorted, searchTerm)
    /\ rankPc' = "done"
    /\ UNCHANGED <<searchTerm, playVars, hashVars, titleVars, extVars, frontVars, catVars>>

NextRank == ProcessSearchResults

SpecRank == InitRank /\ [][NextRank]_vars

-----------------------------------------------------------------------------
(* Claims about the ranking *)

\* non-increasing relevanceScore and, among equal relevanceScore,
\* non-increasing secondaryScore
IsRankSorted(s) ==
    \A i, j \in 1..Len(s) :
        i < j =>
            /\ s[i].relevanceScore >= s[j].relevanceScore
            /\ (s[i].relevanceScore = s[j].relevanceScore
                    => s[i].secondaryScore >= s[j].secondaryScore)

\* the positions of the returned list whose result has the franchise key key
KeyPositions(key) ==
    {i \in 1..Len(groupedResults) :
        FranchiseKey(groupedResults[i], searchTerm) = key}

\* the positions of the returned list whose lower-cased name starts with
\* the lower-cased query
StartsWithPositions ==
    {i \in 1..Len(groupedResults) :
        StartsWith(ToLowerCase(groupedResults[i].name), ToLowerCase(searchTerm))}

IsContiguous(P) == \A i, j \in P : \A k \in i..j : k \in P

\* ascending year in the returned list, an unknown year counting as last
YearAscending(P) ==
    \A i, j \in P :
        i < j => ParseIntOr(groupedResults[i].year, 9999)
                    <= ParseIntOr(groupedResults[j].year, 9999)

\* C1: every item processSearchResults returns has relevanceScore >= 10, and
\* no raw item whose relevance score is below 10 is returned.
C1_FilterInvariant ==
    rankPc = "done" =>
        /\ \A i \in 1..Len(groupedResults) :
              groupedResults[i].relevanceScore >= 10
        /\ \A k \in 1..Len(results) :
              calculateRelevanceScore(results[k], searchTerm) < 10 =>
                 \A i \in 1..Len(groupedResults) :
                    groupedResults[i].originalIndex # k - 1

\* C1 witness: a call that returned some items and filtered some out
C1_Witness ==
    /\ rankPc = "done"
    /\ groupedResults # <<>>
    /\ Len(groupedResults) < Len(results)

\* C2 as stated: the returned list (after the franchise grouping) is ordered
\* by non-increasing relevanceScore, then non-increasing secondaryScore.
C2_ReturnedListSorted ==
    rankPc = "done" => IsRankSorted(groupedResults)

\* C2 amended: the list processSearchResults sorts and hands to the franchise
\* grouping is ordered by non-increasing relevanceScore, then non-increasing
\* secondaryScore; in the returned list that order holds among the standalone
\* items.
C2_SortedBeforeGrouping ==
    rankPc = "done" =>
        /\ IsRankSorted(filteredResults)
        /\ IsRankSorted(SelectAt(groupedResults, KeyPositions(<<>>)))

\* C2 witness: a call whose grouping pass changed the sorted order, the
\* sorted list holding two items of equal relevance that the secondary score
\* ordered, and the returned list a standalone item
C2_Witness ==
    /\ rankPc = "done"
    /\ groupedResults # filteredResults
    /\ KeyPositions(<<>>) # {}
    /\ \E i, j \in 1..Len(filteredResults) :
          /\ i < j
          /\ filteredResults[i].relevanceScore = filteredResults[j].relevanceScore
          /\ filteredResults[i].secondaryScore > filteredResults[j].secondaryScore
          /\ filteredResults[i].originalIndex > filteredResults[j].originalIndex

\* C7 as stated: the returned items whose lower-cased name starts with the
\* query form one contiguous group in ascending year, ahead of every
\* standalone item.
C7_StartsWithGroup ==
    rankPc = "done" =>
        /\ IsContiguous(StartsWithPositions)
        /\ YearAscending(StartsWithPositions)
        /\ \A i \in StartsWithPositions : \A j \in KeyPositions(<<>>) : i < j

\* C7 amended: the returned items whose franchise key is the query (the
\* lower-cased name starts with it, or its first ':' or '-' separated segment,
\* trimmed, equals it) form one contiguous group in ascending year (unknown
\* year last), ahead of every standalone item.
C7_QueryKeyGroup ==
    rankPc = "done" =>
        LET G == KeyPositions(ToLowerCase(searchTerm))
        IN  /\ StartsWithPositions \subseteq G
            /\ IsContiguous(G)
            /\ YearAscending(G)
            /\ \A i \in G : \A j \in KeyPositions(<<>>) : i < j

\* C7 witness: a returned list with a standalone item and a query group that
\* holds a name starting with the query and a name that does not
C7_Witness ==
    /\ rankPc = "done"
    /\ KeyPositions(<<>>) # {}
    /\ StartsWithPositions # {}
    /\ KeyPositions(ToLowerCase(searchTerm)) \ StartsWithPositions # {}

\* the raw item's name equals the query, case-insensitively, after trimming
IsExactMatch(item) ==
    Trim(ToLowerCase(item.name)) = Trim(ToLowerCase(searchTerm))

\* C18: when a raw item's name equals the query (case-insensitively, after
\* trimming), the first element of the ranked output is such an item,
\* whatever the other items, their years and their scores.
C18_ExactMatchFirst ==
    (rankPc = "done" /\ \E i \in 1..Len(results) : IsExactMatch(results[i])) =>
        /\ groupedResults # <<>>
        /\ IsExactMatch(groupedResults[1])

\* the fields of a raw item
RawFields == {"id", "name", "year", "imdb_rating", "content_type"}

TiersOf(name, term) ==
    (IF name = term THEN {100} ELSE {})
    \cup (IF \/ StartsWith(name, term)
             \/ StartsWith(name, <<"t","h","e"," ">> \o term)
          THEN {90} ELSE {})
    \cup (IF StartsWith(name, term \o <<" ">>) THEN {85} ELSE {})
    \cup (IF Includes(name, <<" ">> \o term \o <<" ">>) THEN {80} ELSE {})
    \cup (IF Includes(name, term) THEN {70} ELSE {})
    \cup {0}

\* the maximum over the original and the normalized query
MaxTierOf(m, q) ==
    LET name == Trim(ToLowerCase(m.name))
        tiers == TiersOf(name, Trim(ToLowerCase(q)))
                 \cup TiersOf(name, preprocessSearchTerm(q))
    IN  CHOOSE s \in tiers : \A u \in tiers : u <= s

maxTierOf == [q \in Queries |-> [m \in ItemPool |-> MaxTierOf(m, q)]]

franchiseBoostOf ==
    [q \in Queries |-> [m \in ItemPool |->
        detectFranchiseBoost(Trim(ToLowerCase(m.name)), Trim(ToLowerCase(q)))]]

\* C20: the score of an item before the franchise boost is the maximum,
\* over the original and the normalized query, of 100 (name equals the
\* term), 90 (starts with the term or with "the " and the term), 85 (starts
\* with the term and a space), 80 (contains the term between spaces),
\* 70 (contains the term), 0 otherwise.
C20_BaseScore ==
    rankPc = "done" =>
        /\ \A i \in 1..Len(groupedResults) :
              LET m == results[groupedResults[i].originalIndex + 1] IN
              groupedResults[i].relevanceScore - franchiseBoostOf[searchTerm][m]
                  = maxTierOf[searchTerm][m]
        /\ \A k \in 1..Len(results) :
              (\A i \in 1..Len(groupedResults) : groupedResults[i].originalIndex # k - 1)
                  => maxTierOf[searchTerm][results[k]]
                         + franchiseBoostOf[searchTerm][results[k]] < 10

C20_Witness ==
    /\ rankPc = "done"
    /\ searchTerm = <<"C","a","r","s">>
    /\ \E i, j \in 1..Len(groupedResults) :
          /\ groupedResults[i].id = "tt7"
          /\ groupedResults[i].relevanceScore - franchiseBoostOf[searchTerm][results[groupedResults[i].originalIndex + 1]] = 90
          /\ groupedResults[j].id = "tt4"
          /\ groupedResults[j].relevanceScore = 80

\* the sequel patterns as the comments of detectFranchiseBoost describe
\* them: the term followed by white space and a digit, by white space and
\* "ii", by a colon, by a dash, or later by white space and "film"/"movie"
DescribedSequel(t, q) ==
    \E i \in 1..Len(t) :
        /\ MatchAt(t, q, i)
        /\ LET e == i + Len(q)
               n == RunLen(t, " ", e)
           IN  \/ n >= 1 /\ e + n <= Len(t) /\ IsDigit(t[e + n])
               \/ n >= 1 /\ MatchAt(t, <<"i","i">>, e + n)
               \/ MatchAt(t, <<":">>, e + n)
               \/ MatchAt(t, <<"-">>, e + n)
               \/ \E j \in e..Len(t) :
                     \/ MatchAt(t, <<" ","f","i","l","m">>, j)
                     \/ MatchAt(t, <<" ","m","o","v","i","e">>, j)

describedBoostOf ==
    [q \in Queries |-> [m \in ItemPool |->
        IF DescribedSequel(Trim(ToLowerCase(m.name)), Trim(ToLowerCase(q)))
        THEN 15 ELSE 0]]

\* C21: an item whose name has the term followed by a number, by roman
\* numerals, by a colon, by a dash or by "film"/"movie" scores its base
\* score plus exactly 15 ("Cars 2" scores 105 for "cars"); any other item
\* scores its base score.
C21_FranchiseBoost ==
    rankPc = "done" =>
        \A i \in 1..Len(groupedResults) :
            LET m == results[groupedResults[i].originalIndex + 1] IN
            groupedResults[i].relevanceScore
                = maxTierOf[searchTerm][m] + describedBoostOf[searchTerm][m]

\* the positions of the returned list whose lower-cased name starts with
\* the normalized query
NormalizedStartPositions ==
    {i \in 1..Len(groupedResults) :
        StartsWith(ToLowerCase(groupedResults[i].name),
                   preprocessSearchTerm(searchTerm))}

\* C22: the returned items whose lower-cased name starts with the
\* normalized query are in one franchise group: none of them is standalone
\* and they all have the same franchise key.
C22_NormalizedTermKey ==
    rankPc = "done" =>
        \A i, j \in NormalizedStartPositions :
            /\ FranchiseKey(groupedResults[i], searchTerm) # <<>>
            /\ FranchiseKey(groupedResults[i], searchTerm)
                   = FranchiseKey(groupedResults[j], searchTerm)

\* the order of the sort of processSearchResults between two scored items
Step6Before(a, b) ==
    \/ a.relevanceScore > b.relevanceScore
    \/ /\ a.relevanceScore = b.relevanceScore
       /\ a.secondaryScore > b.secondaryScore
    \/ /\ a.relevanceScore = b.relevanceScore
       /\ a.secondaryScore = b.secondaryScore
       /\ a.originalIndex < b.originalIndex

\* C23: every standalone item comes after every grouped item, and the
\* standalone items are among themselves in the order of the sort:
\* relevanceScore descending, then secondaryScore descending, then input
\* position ascending.
C23_StandaloneLast ==
    rankPc = "done" =>
        LET S == KeyPositions(<<>>)
            G == (1..Len(groupedResults)) \ S
        IN  /\ \A i \in G : \A j \in S : i < j
            /\ \A i, j \in S :
                  i < j => Step6Before(groupedResults[i], groupedResults[j])

\* C23 witness: a grouped item and two standalone items that tie on both
\* scores and are in input order
C23_Witness ==
    /\ rankPc = "done"
    /\ KeyPositions(<<>>) # 1..Len(groupedResults)
    /\ \E i, j \in KeyPositions(<<>>) :
          /\ i < j
          /\ groupedResults[i].relevanceScore = groupedResults[j].relevanceScore
          /\ groupedResults[i].secondaryScore = groupedResults[j].secondaryScore
          /\ groupedResults[i].originalIndex < groupedResults[j].originalIndex

\* the members of the franchise group of the returned item at position i
GroupOf(i) ==
    SelectAt(groupedResults, KeyPositions(FranchiseKey(groupedResults[i], searchTerm)))

\* the average relevanceScore of the group at i is strictly higher than
\* that of the group at j (the averages compared as fractions)
HigherAverage(i, j) ==
    SumScore(GroupOf(i)) * Len(GroupOf(j)) > SumScore(GroupOf(j)) * Len(GroupOf(i))

\* C24: in the returned list a franchise group never precedes a franchise
\* group whose members have a strictly higher average relevanceScore.
C24_GroupsByAverage ==
    rankPc = "done" =>
        LET G == (1..Len(groupedResults)) \ KeyPositions(<<>>)
        IN  \A i, j \in G : i < j => ~HigherAverage(j, i)

\* C24 witness: two groups of different averages, the one of the higher
\* average returned first although the best-ranked item is in the other
C24_Witness ==
    /\ rankPc = "done"
    /\ \E i, j \in (1..Len(groupedResults)) \ KeyPositions(<<>>) :
          /\ i < j
          /\ HigherAverage(i, j)
          /\ FranchiseKey(filteredResults[1], searchTerm)
                 = FranchiseKey(groupedResults[j], searchTerm)

\* the year of the item is known: it begins with a digit
YearKnown(item) == item.year # <<>> /\ IsDigit(Head(item.year))

\* the leading digits of a known year as a number
YearValue(item) == DigitsValue(item.year, 0)

\* C25: inside a franchise group the members are in ascending year, a
\* member of unknown year (missing or not a number) after every member of
\* known year, and members of equal year, or both of unknown year, in the
\* order the sort gave them.
C25_GroupByYear ==
    rankPc = "done" =>
        \A i, j \in (1..Len(groupedResults)) \ KeyPositions(<<>>) :
            (/\ i < j
             /\ FranchiseKey(groupedResults[i], searchTerm)
                    = FranchiseKey(groupedResults[j], searchTerm))
            => LET a == groupedResults[i]
                   b == groupedResults[j]
               IN  IF YearKnown(a)
                   THEN YearKnown(b) =>
                           /\ YearValue(a) <= YearValue(b)
                           /\ YearValue(a) = YearValue(b) => Step6Before(a, b)
                   ELSE ~YearKnown(b) /\ Step6Before(a, b)

\* C25 witness: a group returned as a member of known year followed by two
\* members of unknown year, the first raw item being of unknown year
C25_Witness ==
    /\ rankPc = "done"
    /\ Len(groupedResults) = 3
    /\ KeyPositions(FranchiseKey(groupedResults[1], searchTerm)) = 1..3
    /\ FranchiseKey(groupedResults[1], searchTerm) # <<>>
    /\ YearKnown(groupedResults[1])
    /\ ~YearKnown(groupedResults[2])
    /\ ~YearKnown(groupedResults[3])
    /\ ~YearKnown(results[1])

\* the ranking for a query that has a regex operator
InitRankPattern ==
    /\ searchTerm \in PatternQueries
    /\ results \in SeqsUpTo(ItemPool, MaxResults - 1)
    /\ filteredResults = <<>>
    /\ groupedResults = <<>>
    /\ rankPc = "input"
    /\ PlayIdle /\ installed = {}
    /\ HashIdle
    /\ TitleIdle
    /\ ExtIdle
    /\ FrontIdle
    /\ CatIdle

SpecRankPattern == InitRankPattern /\ [][NextRank]_vars

\* the name holds the term, whatever the case of the letters
NameContains(result, term) ==
    Includes(ToLowerCase(result.name), ToLowerCase(term))

\* C38: every returned result has a name that contains the query or the
\* normalized query, case-insensitively.
C38_NameContainsQuery ==
    rankPc = "done" =>
        \A i \in 1..Len(groupedResults) :
            \/ NameContains(groupedResults[i], Trim(searchTerm))
            \/ NameContains(groupedResults[i], preprocessSearchTerm(searchTerm))

\* the positions of the raw list whose item passes the filter
PassingPositions ==
    {k \in 1..Len(results) : relevanceScoreOf[searchTerm][results[k]] >= 10}

\* C37: the returned list holds each raw item whose relevance score is at
\* least 10 exactly once, as the record scored for it, and nothing else: its
\* length is the number of those items.
C37_Permutation ==
    rankPc = "done" =>
        /\ Len(groupedResults) = Cardinality(PassingPositions)
        /\ \A k \in PassingPositions :
              Cardinality({i \in 1..Len(groupedResults) :
                              groupedResults[i]
                                = ScoreResult(results[k], k, searchTerm)}) = 1
        /\ \A i \in 1..Len(groupedResults) :
              groupedResults[i].originalIndex + 1 \in PassingPositions

\* C37 witness: one raw item was filtered out, and grouping has put the
\* other two, of one franchise, in another order than the sort
C37_Witness ==
    /\ rankPc = "done"
    /\ Len(results) = 3
    /\ Len(groupedResults) = 2
    /\ groupedResults # filteredResults
    /\ FranchiseKey(groupedResults[1], searchTerm) # <<>>

-----------------------------------------------------------------------------
(* extract_torrent_hash: VIDEO_PLAYBACK_FIXES_SUMMARY.md:205-221 *)

Str_btih == <<"b","t","i","h",":">>
Str_magnet == <<"m","a","g","n","e","t",":">>

Ok(v) == [ok |-> TRUE, value |-> v]
Err(v) == [ok |-> FALSE, value |-> v]

\* mutant of extract_torrent_hash: the hash is not lower-cased
extract_torrent_hash_no_lowercase(link) ==
    LET start == IndexOf(link, Str_btih)
        hash_start == start + 5
        amp == IndexOf(SubSeq(link, hash_start, Len(link)), <<"&">>)
        hash_end == IF amp = 0 THEN Len(link) + 1 ELSE hash_start + amp - 1
    IN  IF start = 0 THEN Err("Could not find btih: in magnet link")
        ELSE Ok(SubSeq(link, hash_start, hash_end - 1))

\* mutant of extract_torrent_hash: a link without the marker gives an empty hash
extract_torrent_hash_no_error(link) ==
    LET start == IndexOf(link, Str_btih)
        hash_start == start + 5
        amp == IndexOf(SubSeq(link, hash_start, Len(link)), <<"&">>)
        hash_end == IF amp = 0 THEN Len(link) + 1 ELSE hash_start + amp - 1
    IN  IF start = 0 THEN Ok(<<>>)
        ELSE Ok(ToLowerCase(SubSeq(link, hash_start, hash_end - 1)))

\* positions are 1-based: hash_start is the first character after the marker,
\* hash_end the position of the next '&' or one past the end
extract_torrent_hash(link) ==
    LET start == IndexOf(link, Str_btih)
        hash_start == start + 5
        amp == IndexOf(SubSeq(link, hash_start, Len(link)), <<"&">>)
        hash_end == IF amp = 0 THEN Len(link) + 1 ELSE hash_start + amp - 1
    IN  IF start = 0 THEN Err("Could not find btih: in magnet link")
        ELSE Ok(ToLowerCase(SubSeq(link, hash_start, hash_end - 1)))

\* characters a descriptor may hold after its prefix
HashChars == {"A", "b", "1", "&", ":"}

\* the prefixes of the descriptors: with the marker, without it, and with
\* an '&' ahead of the marker
LinkPrefixes ==
    { Str_magnet \o <<"?","x","t","=","u","r","n",":">> \o Str_btih,
      Str_magnet \o <<"?","x","t","=","u","r","n",":">>,
      Str_magnet \o <<"?","d","n","=","M","&","x","t","=">> \o Str_btih,
      Str_magnet \o <<"?","x","t","=","u","r","n",":","b","t","i","h">> }

MagnetLinks ==
    {p \o t : p \in LinkPrefixes, t \in {<<>>} \cup SeqsUpTo(HashChars, MaxHashLen)}

InitHash ==
    /\ magnet_link \in MagnetLinks
    /\ hashResult = Pending
    /\ hashPc = "input"
    /\ RankIdle
    /\ PlayIdle /\ installed = {}
    /\ CatIdle
    /\ TitleIdle
    /\ ExtIdle
    /\ FrontIdle

\* let hash = extract_torrent_hash(&stream_url)
ExtractTorrentHash ==
    /\ hashPc = "input"
    /\ hashResult' = extract_torrent_hash(magnet_link)
    /\ hashPc' = "done"
    /\ UNCHANGED <<magnet_link, rankVars, playVars, catVars, titleVars, extVars, frontVars>>

NextHash == ExtractTorrentHash

SpecHash == InitHash /\ [][NextHash]_vars

\* C9: for every descriptor holding the marker "btih:", the extracted hash is
\* the lower-case form of the characters after the first occurrence of the
\* marker up to, and not including, the next '&' or the end of the string.
C9_HashExtraction ==
    (hashPc = "done" /\ Includes(magnet_link, Str_btih)) =>
        /\ hashResult.ok
        /\ \E i \in 1..Len(magnet_link) :
              /\ MatchAt(magnet_link, Str_btih, i)
              /\ \A j \in 1..(i - 1) : ~MatchAt(magnet_link, Str_btih, j)
              /\ LET h == hashResult.value
                     n == Len(h)
                 IN  /\ i + 4 + n <= Len(magnet_link)
                     /\ \A k \in 1..n :
                           /\ magnet_link[i + 4 + k] # "&"
                           /\ h[k] = LowerChar(magnet_link[i + 4 + k])
                     /\ \/ i + 4 + n = Len(magnet_link)
                        \/ magnet_link[i + 5 + n] = "&"

\* C9 witness: a hash with an upper-case letter, cut at an '&' that is
\* followed by more text, from a descriptor with an earlier '&'
C9_Witness ==
    /\ hashPc = "done"
    /\ hashResult.ok
    /\ Len(hashResult.value) >= 1
    /\ hashResult.value # SubSeq(magnet_link,
                                 IndexOf(magnet_link, Str_btih) + 5,
                                 IndexOf(magnet_link, Str_btih) + 4
                                     + Len(hashResult.value))
    /\ Len(magnet_link) > IndexOf(magnet_link, Str_btih) + 5 + Len(hashResult.value)
    /\ IndexOf(magnet_link, <<"&">>) < IndexOf(magnet_link, Str_btih)

-----------------------------------------------------------------------------
(* play_video_external, TorrentStreamer.start_stream and                   *)
(* launch_external_player                                                  *)

\* the stream URLs the frontend sends: a swarm descriptor, a swarm
\* descriptor without the marker, a direct URL
UrlSwarm == Str_magnet \o <<"?","x","t","=">> \o Str_btih \o <<"A","B","&","d","n","=","M">>
UrlNoMarker == Str_magnet \o <<"?","x","t","=","A","B">>
UrlDirect == <<"h","t","t","p",":","/","/","h","/","v",".","m","p","4">>

StreamUrls == {UrlSwarm, UrlNoMarker, UrlDirect}

\* the address start_stream returns
LocalUrl == <<"h","t","t","p",":","/","/","1","2","7",".","0",".","0",".","1",
              ":","8","8","8","8">>

\* the player priority list of launch_external_player
PlayerCandidates == <<"mpv", "vlc", "flatpak run io.mpv.Mpv", "flatpak run org.videolan.VLC">>

\* video_extensions of find_video_file_in_hash_dir
video_extensions ==
    { <<"m","p","4">>, <<"m","k","v">>, <<"a","v","i">>, <<"m","o","v">>,
      <<"w","m","v">>, <<"f","l","v">>, <<"w","e","b","m">>, <<"m","4","v">> }

\* what a look-up may see in the hash directory: the extensions of its files
DirListings ==
    { {}, {<<"t","x","t">>}, {<<"n","f","o">>, <<"M","K","V">>} }

\* find_video_file_in_hash_dir: the extension of a file it accepts, <<>> when
\* the directory holds none
FindVideoFile(listing) ==
    IF \E e \in listing : ToLowerCase(e) \in video_extensions
    THEN CHOOSE e \in listing : ToLowerCase(e) \in video_extensions
    ELSE <<>>

\* which candidates the machine can spawn (their positions in the list):
\* none, the first, the second and third, the last only
InstalledSets == { {}, {1}, {2, 3}, {Len(PlayerCandidates)} }

InitPlay ==
    /\ PlayIdle
    /\ installed \in InstalledSets
    /\ HashIdle
    /\ TitleIdle
    /\ ExtIdle
    /\ FrontIdle
    /\ RankIdle
    /\ CatIdle

\* the frontend invokes play_video_external (app.js:2069)
Invoke(c, url) ==
    /\ callPc[c] = "idle"
    /\ \A d \in Calls : d < c => callPc[d] # "idle"
    /\ callPc' = [callPc EXCEPT ![c] = "extract"]
    /\ callUrl' = [callUrl EXCEPT ![c] = url]
    /\ UNCHANGED <<callHash, callResult, pollAttempts, videoPath, spawnLog,
                   streamerHolder, peerflix_process, running, installed, stopped,
                   rankVars, hashVars, titleVars, extVars, frontVars, catVars>>

\* let hash = extract_torrent_hash(&stream_url)?; a URL that is no magnet
\* link goes to the players as it is
ExtractHash(c) ==
    /\ callPc[c] = "extract"
    /\ IF StartsWith(callUrl[c], Str_magnet)
       THEN LET r == extract_torrent_hash(callUrl[c])
            IN  IF r.ok
                THEN /\ callHash' = [callHash EXCEPT ![c] = r.value]
                     /\ callPc' = [callPc EXCEPT ![c] = "lock"]
                     /\ UNCHANGED <<callResult, videoPath>>
                ELSE /\ callResult' = [callResult EXCEPT ![c] = Err(r.value)]
                     /\ callPc' = [callPc EXCEPT ![c] = "failed"]
                     /\ UNCHANGED <<callHash, videoPath>>
       ELSE /\ videoPath' = [videoPath EXCEPT ![c] = callUrl[c]]
            /\ callPc' = [callPc EXCEPT ![c] = "launch"]
            /\ UNCHANGED <<callHash, callResult>>
    /\ UNCHANGED <<callUrl, pollAttempts, spawnLog, streamerHolder,
                   peerflix_process, running, installed, stopped, rankVars, hashVars, titleVars, extVars, frontVars, catVars>>

\* mutant of AcquireStreamer: the lock is not waited for
AcquireStreamerNoWait(c) ==
    /\ callPc[c] = "lock"
    /\ streamerHolder' = c
    /\ callPc' = [callPc EXCEPT ![c] = "stop"]
    /\ UNCHANGED <<callUrl, callHash, callResult, pollAttempts, videoPath,
                   spawnLog, peerflix_process, running, installed, stopped,
                   rankVars, hashVars, titleVars, extVars, frontVars, catVars>>

\* let streamer = state.streamer.lock().await
AcquireStreamer(c) ==
    /\ callPc[c] = "lock"
    /\ streamerHolder = 0
    /\ streamerHolder' = c
    /\ callPc' = [callPc EXCEPT ![c] = "stop"]
    /\ UNCHANGED <<callUrl, callHash, callResult, pollAttempts, videoPath,
                   spawnLog, peerflix_process, running, installed, stopped,
                   rankVars, hashVars, titleVars, extVars, frontVars, catVars>>

\* self.stop_stream().await?  : the stored process, if any, is killed
StopStream(c) ==
    /\ callPc[c] = "stop"
    /\ running' = running \ {peerflix_process}
    /\ stopped' = running \cap {peerflix_process}
    /\ peerflix_process' = 0
    /\ callPc' = [callPc EXCEPT ![c] = "spawn"]
    /\ UNCHANGED <<callUrl, callHash, callResult, pollAttempts, videoPath,
                   spawnLog, streamerHolder, installed, rankVars, hashVars, titleVars, extVars, frontVars, catVars>>

\* Command::new("peerflix.cmd")...spawn()? and the store of the handle; the
\* process of invocation c is named c
SpawnPeerflix(c) ==
    /\ callPc[c] = "spawn"
    /\ \/ /\ running' = running \cup {c}
          /\ peerflix_process' = c
          /\ callPc' = [callPc EXCEPT ![c] = "sleep"]
          /\ UNCHANGED <<callResult, streamerHolder, stopped>>
       \/ /\ callResult' = [callResult EXCEPT ![c] = Err("Failed to start Peerflix")]
          /\ callPc' = [callPc EXCEPT ![c] = "failed"]
          /\ streamerHolder' = 0
          /\ stopped' = {}
          /\ UNCHANGED <<running, peerflix_process>>
    /\ UNCHANGED <<callUrl, callHash, pollAttempts, videoPath, spawnLog,
                   installed, rankVars, hashVars, titleVars, extVars, frontVars, catVars>>

\* tokio::time::sleep(3 s); Ok("http://127.0.0.1:8888"): start_stream
\* returns and the lock guard is dropped
StartStreamReturns(c) ==
    /\ callPc[c] = "sleep"
    /\ streamerHolder' = 0
    /\ stopped' = {}
    /\ callPc' = [callPc EXCEPT ![c] = "poll"]
    /\ UNCHANGED <<callUrl, callHash, callResult, pollAttempts, videoPath,
                   spawnLog, peerflix_process, running, installed,
                   rankVars, hashVars, titleVars, extVars, frontVars, catVars>>

\* mutant of FileNotFoundResult: the error of the look-up is returned
FileNotFoundResultError == Err("No video files found in hash directory")

\* Err(e) => return Ok(local_url): the fallback to the helper's own address
FileNotFoundResult == Ok(LocalUrl)

\* one look-up of the hash directory; the last one without a video file
\* ends the resolution with the fallback
PollHashDir(c, listing) ==
    /\ callPc[c] = "poll"
    /\ pollAttempts[c] < MaxPollAttempts
    /\ pollAttempts' = [pollAttempts EXCEPT ![c] = @ + 1]
    /\ LET found == FindVideoFile(listing)
       IN  IF found # <<>>
           THEN /\ videoPath' = [videoPath EXCEPT ![c] = callHash[c] \o <<"/","v",".">> \o found]
                /\ callPc' = [callPc EXCEPT ![c] = "launch"]
                /\ UNCHANGED callResult
           ELSE IF pollAttempts[c] + 1 = MaxPollAttempts
           THEN /\ callResult' = [callResult EXCEPT ![c] = FileNotFoundResult]
                /\ callPc' = [callPc EXCEPT ![c] =
                                 IF FileNotFoundResult.ok THEN "degraded" ELSE "failed"]
                /\ UNCHANGED videoPath
           ELSE UNCHANGED <<videoPath, callResult, callPc>>
    /\ UNCHANGED <<callUrl, callHash, spawnLog, streamerHolder,
                   peerflix_process, running, installed, stopped, rankVars, hashVars, titleVars, extVars, frontVars, catVars>>

\* mutant of SpawnAccepted: the loop goes on after a successful spawn
SpawnAcceptedNever(i) == FALSE

\* Ok(_) => return Ok(...): the spawn of candidate i succeeded
SpawnAccepted(i) == i \in installed

\* mutant of NoPlayerResult: the exhausted list is reported as a launch
NoPlayerResultOk == Ok("default player")

\* Err("No video player found. Please install MPV or VLC: ...") after the loop
NoPlayerResult == Err("No video player found")

\* one turn of the loop over the player candidates: the next candidate is
\* spawned; success returns, failure goes on, the end of the list is the
\* error "No video player found"
TryPlayer(c) ==
    /\ callPc[c] = "launch"
    /\ LET i == Len(spawnLog[c]) + 1
       IN  /\ spawnLog' = [spawnLog EXCEPT ![c] = Append(@, i)]
           /\ IF SpawnAccepted(i)
              THEN /\ callResult' = [callResult EXCEPT ![c] = Ok(PlayerCandidates[i])]
                   /\ callPc' = [callPc EXCEPT ![c] = "playing"]
              ELSE IF i = Len(PlayerCandidates)
              THEN /\ callResult' = [callResult EXCEPT ![c] = NoPlayerResult]
                   /\ callPc' = [callPc EXCEPT ![c] =
                                    IF NoPlayerResult.ok THEN "playing" ELSE "failed"]
              ELSE UNCHANGED <<callResult, callPc>>
    /\ UNCHANGED <<callUrl, callHash, pollAttempts, videoPath, streamerHolder,
                   peerflix_process, running, installed, stopped, rankVars, hashVars, titleVars, extVars, frontVars, catVars>>

\* a swarm-helper process ends by itself
HelperExits(p) ==
    /\ p \in running
    /\ running' = running \ {p}
    /\ UNCHANGED <<callPc, callUrl, callHash, callResult, pollAttempts,
                   videoPath, spawnLog, streamerHolder, peerflix_process,
                   installed, stopped, rankVars, hashVars, titleVars, extVars, frontVars, catVars>>

NextPlay ==
    \/ \E c \in Calls, url \in StreamUrls : Invoke(c, url)
    \/ \E c \in Calls : ExtractHash(c)
    \/ \E c \in Calls : AcquireStreamer(c)
    \/ \E c \in Calls : StopStream(c)
    \/ \E c \in Calls : SpawnPeerflix(c)
    \/ \E c \in Calls : StartStreamReturns(c)
    \/ \E c \in Calls, listing \in DirListings : PollHashDir(c, listing)
    \/ \E c \in Calls : TryPlayer(c)
    \/ \E p \in Calls : HelperExits(p)

SpecPlay == InitPlay /\ [][NextPlay]_vars

-----------------------------------------------------------------------------
(* Claims about resolution and launch *)

Last(q) == q[Len(q)]

\* invocation c was given a swarm descriptor without the hash marker
NoMarker(c) ==
    StartsWith(callUrl[c], Str_magnet) /\ ~Includes(callUrl[c], Str_btih)

\* C3: at most one swarm-helper process runs in every reachable state, and
\* when an invocation comes to spawn its helper, the helper of any earlier
\* session has been terminated.
C3_SingleFlight ==
    /\ Cardinality(running) <= 1
    /\ \A c \in Calls : callPc[c] = "spawn" => running = {}

\* C3 witness: the second invocation's helper runs, the first invocation's
\* helper was terminated by stop_stream while it ran, and the first
\* invocation is still looking for its file
C3_Witness ==
    /\ callPc[2] = "sleep"
    /\ running = {2}
    /\ 1 \in stopped
    /\ callPc[1] = "poll"

\* C4: the candidates are tried strictly in list order (mpv, vlc, then the
\* packaged variants); a failed spawn is followed by the next candidate; the
\* first candidate whose spawn succeeds ends the launch with success
\* attributed to it, and no candidate is tried after it.
C4_PlayerFallback ==
    /\ PlayerCandidates[1] = "mpv" /\ PlayerCandidates[2] = "vlc"
    /\ \A c \in Calls :
          LET log == spawnLog[c]
          IN  /\ \A k \in 1..Len(log) : log[k] = k
              /\ \A k \in 1..(Len(log) - 1) : log[k] \notin installed
              /\ (log # <<>> /\ Last(log) \in installed) =>
                    /\ callPc[c] = "playing"
                    /\ callResult[c] = Ok(PlayerCandidates[Last(log)])
              /\ callPc[c] = "playing" => (log # <<>> /\ Last(log) \in installed)
              /\ (callPc[c] = "failed" /\ log # <<>>) =>
                    /\ Len(log) = Len(PlayerCandidates)
                    /\ Last(log) \notin installed

\* C4 witness: the first candidate failed, the second was accepted, and a
\* later candidate that would have spawned was not tried
C4_Witness ==
    \E c \in Calls :
        /\ callPc[c] = "playing"
        /\ spawnLog[c] = <<1, 2>>
        /\ 3 \in installed

\* C5: an invocation that made all its look-ups of the hash directory without
\* finding a video file has returned the helper's local address, as a
\* success (Degraded), not an error.
C5_DegradedFallback ==
    \A c \in Calls :
        (pollAttempts[c] = MaxPollAttempts /\ videoPath[c] = <<>>) =>
            /\ callPc[c] = "degraded"
            /\ callResult[c] = Ok(LocalUrl)

\* C5 witness: an invocation that ended Degraded
C5_Witness ==
    \E c \in Calls :
        /\ callPc[c] = "degraded"
        /\ pollAttempts[c] = MaxPollAttempts
        /\ c \in running

\* C10: an invocation given a swarm descriptor without the hash marker only
\* fails: it ends with the error of extract_torrent_hash, never gets a
\* target (Ready) or the helper address (Degraded), and spawns no player.
C10_MalformedDescriptor ==
    \A c \in Calls :
        NoMarker(c) =>
            /\ callPc[c] \in {"extract", "failed"}
            /\ callPc[c] = "failed" =>
                  callResult[c] = Err("Could not find btih: in magnet link")
            /\ ~callResult[c].ok
            /\ videoPath[c] = <<>>
            /\ spawnLog[c] = <<>>

\* C10 witness: an invocation with such a descriptor has failed while the
\* other one went on to the players
C10_Witness ==
    \E c, d \in Calls :
        /\ NoMarker(c)
        /\ callPc[c] = "failed"
        /\ spawnLog[d] # <<>>

\* every candidate of invocation c was tried and none could be spawned
Exhausted(c) ==
    /\ Len(spawnLog[c]) = Len(PlayerCandidates)
    /\ \A k \in 1..Len(spawnLog[c]) : spawnLog[c][k] \notin installed

\* C14: when every player candidate failed to spawn, the invocation has ended
\* in Failed with the error "No video player found" as its result, and from
\* then on nothing is spawned for it: a failed invocation stays failed and
\* its list of spawn attempts does not grow (a new spawn needs a new
\* invocation).
C14_NoPlayerNoRetry ==
    [][\A c \in Calls :
          /\ Exhausted(c)' =>
                /\ callPc'[c] = "failed"
                /\ callResult'[c] = Err("No video player found")
          /\ callPc[c] = "failed" =>
                /\ callPc'[c] = "failed"
                /\ spawnLog'[c] = spawnLog[c]
                /\ callResult'[c] = callResult[c]]_vars

\* C14 witness: an invocation failed after all candidates were tried, and
\* the system went on (the other invocation was made after that failure)
C14_Witness ==
    \E c, d \in Calls :
        /\ c # d
        /\ Exhausted(c)
        /\ callPc[c] = "failed"
        /\ callPc[d] # "idle"
        /\ Len(spawnLog[d]) >= 1

\* play_video_external is an async command: an invocation that can take
\* its next step takes it; the lock of state.streamer is a tokio Mutex,
\* which serves its waiters in turn
SpecPlayFair ==
    /\ SpecPlay
    /\ \A c \in Calls :
          /\ WF_vars(ExtractHash(c))
          /\ SF_vars(AcquireStreamer(c))
          /\ WF_vars(StopStream(c))
          /\ WF_vars(SpawnPeerflix(c))
          /\ WF_vars(StartStreamReturns(c))
          /\ WF_vars(\E listing \in DirListings : PollHashDir(c, listing))
          /\ WF_vars(TryPlayer(c))

\* the state of the playback attempt of invocation c, in the terms
\* Idle, Resolving, Ready, Degraded, Launching, Playing, Failed
Phase(pc, log) ==
    CASE pc = "idle" -> "Idle"
      [] pc \in {"extract", "lock", "stop", "spawn", "sleep", "poll"} -> "Resolving"
      [] pc = "launch" /\ log = <<>> -> "Ready"
      [] pc = "launch" /\ log # <<>> -> "Launching"
      [] pc = "degraded" -> "Degraded"
      [] pc = "playing" -> "Playing"
      [] OTHER -> "Failed"

\* Idle -> Resolving -> Ready | Degraded -> Launching -> Playing | Failed,
\* with Failed also out of Resolving (malformed descriptor); the step that
\* spawns the first candidate goes through Launching
PhaseSteps ==
    { <<"Idle", "Resolving">>,
      <<"Resolving", "Ready">>, <<"Resolving", "Degraded">>, <<"Resolving", "Failed">>,
      <<"Ready", "Launching">>, <<"Ready", "Playing">>, <<"Ready", "Failed">>,
      <<"Degraded", "Launching">>, <<"Degraded", "Playing">>, <<"Degraded", "Failed">>,
      <<"Launching", "Playing">>, <<"Launching", "Failed">> }

\* C15: every playback attempt terminates: the look-up of the hash directory
\* is made at most MaxPollAttempts times, an attempt moves only along
\* Idle -> Resolving -> Ready | Degraded -> Launching -> Playing | Failed,
\* and every attempt that is resolving eventually is Playing or Failed.
C15_AttemptReachesPlayingOrFailed ==
    /\ [](\A c \in Calls : pollAttempts[c] <= MaxPollAttempts)
    /\ [][\A c \in Calls :
             LET from == Phase(callPc[c], spawnLog[c])
                 to   == Phase(callPc'[c], spawnLog'[c])
             IN  from = to \/ <<from, to>> \in PhaseSteps]_vars
    /\ \A c \in Calls :
          (Phase(callPc[c], spawnLog[c]) = "Resolving")
              ~> (Phase(callPc[c], spawnLog[c]) \in {"Playing", "Failed"})

-----------------------------------------------------------------------------
(* AddonClient.fetch_popular_movies with several sources and deduplication: *)
(* Phase1_Backend_Development.md:87-99 and 140-149                          *)

Providers == 1..MaxProviders

\* the ids of the catalog; their order stands for the order of the id strings
CatalogIds == {1, 2, 3}

\* what an addon may answer: an error or a listing
Responses ==
    {Err(<<>>)} \cup {Ok(l) : l \in {<<>>} \cup SeqsUpTo(CatalogIds, MaxListing)}

\* the movies parsed from the listing of addon p: each copy carries where it
\* came from
MoviesOf(p, listing) ==
    [k \in 1..Len(listing) |-> [id |-> listing[k], provider |-> p, pos |-> k]]

\* the comparator of all_movies.sort_by(|a, b| a.id.cmp(&b.id))
IdLess(a, b) == a.id < b.id

\* mutant of DedupById: of equal neighbours the later one is kept
RECURSIVE DedupByIdKeepLast(_)
DedupByIdKeepLast(l) ==
    IF Len(l) <= 1 THEN l
    ELSE IF l[1].id = l[2].id
         THEN DedupByIdKeepLast(Tail(l))
         ELSE <<l[1]>> \o DedupByIdKeepLast(Tail(l))

\* all_movies.dedup_by(|a, b| a.id == b.id): of consecutive elements with the
\* same id the first is kept
RECURSIVE DedupById(_)
DedupById(l) ==
    IF Len(l) <= 1 THEN l
    ELSE IF l[1].id = l[2].id
         THEN DedupById(<<l[1]>> \o Tail(Tail(l)))
         ELSE <<l[1]>> \o DedupById(Tail(l))

InitCatalog ==
    /\ responses \in [Providers -> Responses]
    /\ all_movies = <<>>
    /\ fetchIndex = 1
    /\ catPc = "fetch"
    /\ PopularIdle
    /\ SearchIdle
    /\ RankIdle
    /\ PlayIdle /\ installed = {}
    /\ HashIdle
    /\ TitleIdle
    /\ ExtIdle
    /\ FrontIdle

\* one turn of the loop over base_urls: Ok(movies) is appended, Err(e) is
\* logged and the next addon is tried
FetchFromAddon ==
    /\ catPc = "fetch"
    /\ fetchIndex <= MaxProviders
    /\ all_movies' = IF responses[fetchIndex].ok
                     THEN all_movies \o MoviesOf(fetchIndex, responses[fetchIndex].value)
                     ELSE all_movies
    /\ fetchIndex' = fetchIndex + 1
    /\ catPc' = IF fetchIndex = MaxProviders THEN "merge" ELSE "fetch"
    /\ UNCHANGED <<responses, popVars, searchVars, rankVars, playVars, hashVars, titleVars, extVars, frontVars>>

\* all_movies.sort_by(..); all_movies.dedup_by(..)
SortAndDedup ==
    /\ catPc = "merge"
    /\ all_movies' = DedupById(StableSort(all_movies, IdLess))
    /\ catPc' = "done"
    /\ UNCHANGED <<responses, fetchIndex, popVars, searchVars, rankVars, playVars, hashVars, titleVars, extVars, frontVars>>

NextCatalog == FetchFromAddon \/ SortAndDedup

SpecCatalog == InitCatalog /\ [][NextCatalog]_vars

\* the addons that answered with a listing holding id
Suppliers(id) ==
    {p \in Providers :
        responses[p].ok /\ \E k \in 1..Len(responses[p].value) : responses[p].value[k] = id}

-----------------------------------------------------------------------------
(* AddonClient.fetch_popular_movies, the prioritized fetch:                *)
(* DEVELOPMENT_JOURNEY.md:475-501                                          *)

Addons == 1..MaxAddons

\* what fetch_movies_from_addon may give for an addon: Err (a failed or
\* timed-out request), an empty listing, a listing of one movie
PopularResponses == {Err(<<>>), Ok(<<>>)} \cup {Ok(<<id>>) : id \in CatalogIds}

\* if index == 0 && !all_movies.is_empty() { break; }
BreakAfter(index, movies) == index = 0 /\ movies # <<>>

\* mutant of PopularResult: the list is returned whatever it holds
PopularResultNeverFails(movies) == Ok(movies)

\* if all_movies.is_empty() { return Err(..) }  Ok(all_movies)
PopularResult(movies) ==
    IF movies = <<>> THEN Err("No movies found from any addon") ELSE Ok(movies)

InitPopular ==
    /\ popResponses \in [Addons -> PopularResponses]
    /\ pop_movies = <<>>
    /\ popIndex = 1
    /\ popQueried = <<>>
    /\ popResult = Pending
    /\ popPc = "fetch"
    /\ responses = <<>> /\ all_movies = <<>> /\ fetchIndex = 1 /\ catPc = "fetch"
    /\ SearchIdle
    /\ RankIdle
    /\ PlayIdle /\ installed = {}
    /\ HashIdle
    /\ TitleIdle
    /\ ExtIdle
    /\ FrontIdle

\* one turn of the loop over base_urls.iter().enumerate(): index is
\* popIndex - 1
FetchPopularFromAddon ==
    /\ popPc = "fetch"
    /\ popIndex <= MaxAddons
    /\ popQueried' = Append(popQueried, popIndex)
    /\ LET r == popResponses[popIndex]
           movies == IF r.ok THEN pop_movies \o MoviesOf(popIndex, r.value)
                     ELSE pop_movies
       IN  /\ pop_movies' = movies
           /\ IF r.ok /\ BreakAfter(popIndex - 1, movies)
              THEN /\ popPc' = "return"
                   /\ UNCHANGED popIndex
              ELSE /\ popIndex' = popIndex + 1
                   /\ popPc' = IF popIndex = MaxAddons THEN "return" ELSE "fetch"
    /\ UNCHANGED <<popResponses, popResult, responses, all_movies, fetchIndex,
                   catPc, searchVars, rankVars, playVars, hashVars, titleVars, extVars, frontVars>>

\* after the loop: the error when nothing was collected, the list otherwise
FetchPopularReturns ==
    /\ popPc = "return"
    /\ popResult' = PopularResult(pop_movies)
    /\ popPc' = "done"
    /\ UNCHANGED <<popResponses, pop_movies, popIndex, popQueried, responses,
                   all_movies, fetchIndex, catPc, searchVars, rankVars, playVars,
                   hashVars, titleVars, extVars, frontVars>>

NextPopular == FetchPopularFromAddon \/ FetchPopularReturns

SpecPopular == InitPopular /\ [][NextPopular]_vars

\* addon p answered with a listing that is not empty
NonEmptyListing(p) == popResponses[p].ok /\ popResponses[p].value # <<>>

\* C11: the addons are queried in the order of base_urls and, once an addon
\* at any position has returned a listing that is not empty, no addon is
\* queried after it.
C11_StopAtFirstNonEmpty ==
    /\ \A k \in 1..Len(popQueried) : popQueried[k] = k
    /\ \A k \in 1..Len(popQueried) :
          NonEmptyListing(popQueried[k]) => k = Len(popQueried)

\* C12: fetch_popular_movies ends with the error "No movies found from any
\* addon", carrying no movie, exactly when every addon of base_urls failed or
\* returned an empty listing; a failure of one addon alone does not make it
\* fail.
C12_FailsOnlyIfAllEmpty ==
    popPc = "done" =>
        /\ (~popResult.ok) <=> (\A p \in Addons : ~NonEmptyListing(p))
        /\ ~popResult.ok => popResult.value = "No movies found from any addon"
        /\ popResult.ok => popResult.value # <<>>

\* C12 witness: an addon failed, a later one returned a movie, and the call
\* returned the list
C12_Witness ==
    /\ popPc = "done"
    /\ popResult.ok
    /\ \E p, q \in Addons : p < q /\ ~popResponses[p].ok /\ NonEmptyListing(q)
                             /\ q \in {popQueried[k] : k \in 1..Len(popQueried)}

-----------------------------------------------------------------------------
(* AddonClient.search_content: DEVELOPMENT_JOURNEY.md:105-146              *)

Str_cars == <<"c","a","r","s">>
Str_naruto == <<"n","a","r","u","t","o">>

\* popular_anime of is_anime_content, as far as the names of the model go
popular_anime == { Str_naruto }

\* is_anime_content: the name holds one of the anime patterns
is_anime_content(result) ==
    \E a \in popular_anime : Includes(ToLowerCase(result.name), a)

\* a search result of an addon
SearchItem(p, kind, name) ==
    [id |-> name, provider |-> p, content_type |-> kind, name |-> name]

\* what search_movies_from_addon and search_series_from_addon may give for
\* addon p: Err (a failed or timed-out request), no result, one result
MovieSearchResponses(p) ==
    {Err(<<>>), Ok(<<>>), Ok(<<SearchItem(p, "movie", Str_cars)>>)}

SeriesSearchResponses(p) ==
    {Err(<<>>), Ok(<<>>), Ok(<<SearchItem(p, "series", Str_naruto)>>)}

InitSearch ==
    /\ searchResponses \in
          [Addons -> [movies : UNION {MovieSearchResponses(p) : p \in Addons},
                      series : UNION {SeriesSearchResponses(p) : p \in Addons}]]
    /\ \A p \in Addons : /\ searchResponses[p].movies \in MovieSearchResponses(p)
                         /\ searchResponses[p].series \in SeriesSearchResponses(p)
    /\ all_results = <<>>
    /\ searchIndex = 1
    /\ searchResult = Pending
    /\ searchPc = "search"
    /\ responses = <<>> /\ all_movies = <<>> /\ fetchIndex = 1 /\ catPc = "fetch"
    /\ PopularIdle
    /\ RankIdle
    /\ PlayIdle /\ installed = {}
    /\ HashIdle
    /\ TitleIdle
    /\ ExtIdle
    /\ FrontIdle

\* one turn of the loop over base_urls: the two searches, each followed by
\* `?`, which returns the error of a failed search from search_content
SearchAddon ==
    /\ searchPc = "search"
    /\ searchIndex <= MaxAddons
    /\ LET movie_results  == searchResponses[searchIndex].movies
           series_results == searchResponses[searchIndex].series
       IN  IF ~movie_results.ok \/ ~series_results.ok
           THEN /\ searchResult' = Err("search failed")
                /\ searchPc' = "done"
                /\ UNCHANGED <<all_results, searchIndex>>
           ELSE /\ all_results' = all_results \o movie_results.value
                                              \o series_results.value
                /\ searchIndex' = searchIndex + 1
                /\ searchPc' = IF searchIndex = MaxAddons THEN "detect" ELSE "search"
                /\ UNCHANGED searchResult
    /\ UNCHANGED <<searchResponses, responses, all_movies, fetchIndex, catPc,
                   popVars, rankVars, playVars, hashVars, titleVars, extVars, frontVars>>

\* the anime detection over all_results and Ok(all_results)
DetectAnimeAndReturn ==
    /\ searchPc = "detect"
    /\ all_results' = [k \in 1..Len(all_results) |->
                          IF is_anime_content(all_results[k])
                          THEN [all_results[k] EXCEPT !.content_type = "anime"]
                          ELSE all_results[k]]
    /\ searchResult' = Ok(all_results')
    /\ searchPc' = "done"
    /\ UNCHANGED <<searchResponses, searchIndex, responses, all_movies,
                   fetchIndex, catPc, popVars, rankVars, playVars, hashVars, titleVars, extVars, frontVars>>

NextSearch == SearchAddon \/ DetectAnimeAndReturn

SpecSearch == InitSearch /\ [][NextSearch]_vars

\* the results (addon, name) the searches that did not fail returned
ReturnedBySearches ==
    {<<p, Str_cars>> : p \in {q \in Addons : /\ searchResponses[q].movies.ok
                                             /\ searchResponses[q].movies.value # <<>>}}
    \cup
    {<<p, Str_naruto>> : p \in {q \in Addons : /\ searchResponses[q].series.ok
                                               /\ searchResponses[q].series.value # <<>>}}

\* C13: search_content returns a list, never an error, and the list holds
\* the results of every search that did not fail, whatever the other
\* searches did.
C13_SearchMergesNonError ==
    searchPc = "done" =>
        /\ searchResult.ok
        /\ \A x \in ReturnedBySearches :
              \E k \in 1..Len(searchResult.value) :
                  /\ searchResult.value[k].provider = x[1]
                  /\ searchResult.value[k].name = x[2]

-----------------------------------------------------------------------------
(* Frontend: selecting a content, choosing a stream, playing it            *)
(* src/deckflix/src/app.js:1808-2108, 2186-2206, 2280-2295                 *)

\* the contents of the catalogue cards
Contents ==
    { [id |-> "tt0068646", name |-> "The Godfather", year |-> "1972", type |-> "movie"],
      [id |-> "tt0944947", name |-> "Game of Thrones", year |-> "2011", type |-> "series"] }

\* a page address that is neither a swarm descriptor nor a video file
UrlPage == <<"h","t","t","p","s",":","/","/","h","/","p">>

\* a swarm descriptor whose display name ends in a video extension, and a
\* video file that is not served over http
UrlSwarmVideo == UrlSwarm \o <<".","m","p","4">>
UrlFtp == <<"f","t","p",":","/","/","h","/","v",".","m","p","4">>

FrontUrls == {UrlSwarm, UrlDirect, UrlPage, UrlSwarmVideo, UrlFtp}

\* a stream of the content c; imdbId is bookkeeping: the content the
\* backend was asked about, which the stream object itself does not carry
Stream(c, u) == [title |-> "1080p", url |-> u, imdbId |-> c.id]

\* what fetch_streams can answer for the content c
FetchOutcomes(c) ==
    {Err("fetch failed"), Ok(<<>>)}
    \cup {Ok(<<Stream(c, u)>>) : u \in FrontUrls \ {UrlDirect, UrlSwarm}}
    \cup {Ok(<<Stream(c, UrlDirect), Stream(c, UrlSwarm)>>)}

\* mutant of IsDirectVideoUrl: the test of the scheme left out
IsDirectVideoUrlAnyScheme(url) ==
    LET http == <<"h","t","t","p",":","/","/">>
        https == <<"h","t","t","p","s",":","/","/">>
        mp4 == <<".","m","p","4">>
        mkv == <<".","m","k","v">>
        webm == <<".","w","e","b","m">>
        video == <<"v","i","d","e","o">>
    IN  /\ url # <<>>
        /\ ~StartsWith(url, Str_magnet)
        /\ \/ Includes(url, mp4)
           \/ Includes(url, mkv)
           \/ Includes(url, webm)
           \/ Includes(url, video)

\* the test of playStream for the built-in player
IsDirectVideoUrl(url) ==
    LET http == <<"h","t","t","p",":","/","/">>
        https == <<"h","t","t","p","s",":","/","/">>
        mp4 == <<".","m","p","4">>
        mkv == <<".","m","k","v">>
        webm == <<".","w","e","b","m">>
        video == <<"v","i","d","e","o">>
    IN  /\ url # <<>>
        /\ (StartsWith(url, http) \/ StartsWith(url, https))
        /\ ~StartsWith(url, Str_magnet)
        /\ \/ Includes(url, mp4)
           \/ Includes(url, mkv)
           \/ Includes(url, webm)
           \/ Includes(url, video)

\* the prefix of a local stream address
Str_local == <<"h","t","t","p",":","/","/","1","2","7",".","0",".","0",".","1",":">>

\* what play_video_external can answer
Str_launched == <<"P","l","a","y","i","n","g">>

PlayOutcomes(isMagnet) ==
    IF isMagnet
    THEN {Ok(LocalUrl), Ok(Str_launched), Err("Failed to start torrent stream")}
    ELSE {Ok(Str_launched), Err("No video player found")}

InitFront ==
    /\ FrontIdle
    /\ RankIdle
    /\ PlayIdle /\ installed = {}
    /\ CatIdle
    /\ HashIdle
    /\ TitleIdle
    /\ ExtIdle

\* selectContent up to the await of fetch_streams
SelectContent(c) ==
    /\ selectCount < MaxSelects
    /\ videoModal = "hidden"
    /\ modalOpen => "list" \notin modalPane
    /\ currentContent' = c
    /\ modalOpen' = TRUE
    /\ modalPane' = {"loading"}
    /\ selectCount' = selectCount + 1
    /\ streamFetches' = streamFetches \cup {[n |-> selectCount + 1, content |-> c]}
    /\ UNCHANGED <<currentStreams, currentStreamUrl, playInvokes, invokeLog,
                   videoModal, videoTitle, uiMessage>>
    /\ UNCHANGED <<rankVars, playVars, catVars, hashVars, titleVars, extVars>>

\* selectContent after the await: displayStreams or showStreamsError
FetchStreamsReturns(f, r) ==
    /\ f \in streamFetches
    /\ streamFetches' = streamFetches \ {f}
    /\ currentStreams' = IF r.ok THEN r.value ELSE currentStreams
    /\ modalPane' = IF r.ok /\ r.value # <<>>
                    THEN (modalPane \ {"loading"}) \cup {"list"}
                    ELSE {"error"}
    /\ UNCHANGED <<currentContent, modalOpen, currentStreamUrl, playInvokes,
                   invokeLog, videoModal, videoTitle, uiMessage, selectCount>>
    /\ UNCHANGED <<rankVars, playVars, catVars, hashVars, titleVars, extVars>>

\* the arguments with the metadata of VIDEO_PLAYBACK_FIXES_SUMMARY.md:58-69
PlayArgsWithMetadata(streamUrl, content) ==
    [streamUrl |-> streamUrl,
     metadata |-> [title |-> content.name, year |-> content.year,
                   content_type |-> content.type]]

\* the arguments of the play_video_external invocation
PlayArgs(streamUrl) == [streamUrl |-> streamUrl]

\* tryExternalPlayer up to the await of play_video_external
TryExternalPlayer(streamUrl) ==
    /\ Len(invokeLog) < MaxInvokes
    /\ invokeLog' = Append(invokeLog, [args |-> PlayArgs(streamUrl),
                                       selected |-> currentContent])
    /\ playInvokes' = playInvokes \cup
           {[n |-> Len(invokeLog) + 1, isMagnet |-> StartsWith(streamUrl, Str_magnet)]}
    /\ uiMessage' = "status: loading"

\* the title playWithBuiltInPlayer shows
BuiltInTitle(content, streamTitle) ==
    <<IF content # NoContent THEN content.name ELSE "Unknown Movie", " - ", streamTitle>>

\* playStream: the built-in player for a direct video URL, the external
\* player otherwise, then closeStreamModal
PlayStream(k) ==
    /\ modalOpen /\ "list" \in modalPane
    /\ k \in 1..Len(currentStreams)
    /\ LET stream == currentStreams[k] IN
          /\ currentStreamUrl' = stream.url
          /\ IF IsDirectVideoUrl(stream.url)
             THEN /\ videoTitle' = BuiltInTitle(currentContent, stream.title)
                  /\ videoModal' = "loading"
                  /\ UNCHANGED <<invokeLog, playInvokes, uiMessage>>
             ELSE /\ TryExternalPlayer(stream.url)
                  /\ UNCHANGED <<videoTitle, videoModal>>
    /\ modalOpen' = FALSE
    /\ currentContent' = NoContent
    /\ currentStreams' = <<>>
    /\ UNCHANGED <<modalPane, streamFetches, selectCount>>
    /\ UNCHANGED <<rankVars, playVars, catVars, hashVars, titleVars, extVars>>

\* tryExternalPlayer after the await
PlayVideoReturns(p, r) ==
    /\ p \in playInvokes
    /\ playInvokes' = playInvokes \ {p}
    /\ IF r.ok /\ p.isMagnet /\ StartsWith(r.value, Str_local)
       THEN /\ videoTitle' = BuiltInTitle(currentContent, "Torrent Stream (Peerflix)")
            /\ videoModal' = "loading"
            /\ uiMessage' = "none"
       ELSE /\ uiMessage' = IF ~r.ok
                            THEN IF r.value = "No video player found"
                                 THEN "error: no video player found"
                                 ELSE "error: failed to launch"
                            ELSE IF p.isMagnet THEN "status: torrent stream started"
                                 ELSE "none"
            /\ UNCHANGED <<videoTitle, videoModal>>
    /\ UNCHANGED <<currentContent, currentStreams, modalOpen, modalPane,
                   streamFetches, currentStreamUrl, invokeLog, selectCount>>
    /\ UNCHANGED <<rankVars, playVars, catVars, hashVars, titleVars, extVars>>

\* oncanplay of the video element
VideoCanPlay ==
    /\ videoModal = "loading"
    /\ videoModal' = "playing"
    /\ UNCHANGED <<currentContent, currentStreams, modalOpen, modalPane,
                   streamFetches, currentStreamUrl, playInvokes, invokeLog,
                   videoTitle, uiMessage, selectCount>>
    /\ UNCHANGED <<rankVars, playVars, catVars, hashVars, titleVars, extVars>>

\* onerror of the video element: showVideoError
VideoError ==
    /\ videoModal \in {"loading", "playing"}
    /\ videoModal' = "error"
    /\ UNCHANGED <<currentContent, currentStreams, modalOpen, modalPane,
                   streamFetches, currentStreamUrl, playInvokes, invokeLog,
                   videoTitle, uiMessage, selectCount>>
    /\ UNCHANGED <<rankVars, playVars, catVars, hashVars, titleVars, extVars>>

\* the retry button of the video error pane
RetryVideo ==
    /\ videoModal = "error"
    /\ currentStreamUrl # <<>>
    /\ TryExternalPlayer(currentStreamUrl)
    /\ UNCHANGED <<currentContent, currentStreams, modalOpen, modalPane,
                   streamFetches, currentStreamUrl, videoModal, videoTitle,
                   selectCount>>
    /\ UNCHANGED <<rankVars, playVars, catVars, hashVars, titleVars, extVars>>

\* closeVideoPlayer: the close button, Escape, or the end of the video
CloseVideoPlayer ==
    /\ videoModal # "hidden"
    /\ videoModal' = "hidden"
    /\ currentStreamUrl' = <<>>
    /\ UNCHANGED <<currentContent, currentStreams, modalOpen, modalPane,
                   streamFetches, playInvokes, invokeLog, videoTitle,
                   uiMessage, selectCount>>
    /\ UNCHANGED <<rankVars, playVars, catVars, hashVars, titleVars, extVars>>

\* closeStreamModal from the close button or a click outside the modal
CloseStreamModal ==
    /\ modalOpen
    /\ modalOpen' = FALSE
    /\ currentContent' = NoContent
    /\ currentStreams' = <<>>
    /\ UNCHANGED <<modalPane, streamFetches, currentStreamUrl, playInvokes,
                   invokeLog, videoModal, videoTitle, uiMessage, selectCount>>
    /\ UNCHANGED <<rankVars, playVars, catVars, hashVars, titleVars, extVars>>

NextFront ==
    \/ \E c \in Contents : SelectContent(c)
    \/ \E f \in streamFetches : \E r \in FetchOutcomes(f.content) : FetchStreamsReturns(f, r)
    \/ \E k \in 1..2 : PlayStream(k)
    \/ \E p \in playInvokes : \E r \in PlayOutcomes(p.isMagnet) : PlayVideoReturns(p, r)
    \/ VideoCanPlay
    \/ VideoError
    \/ RetryVideo
    \/ CloseVideoPlayer
    \/ CloseStreamModal

SpecFront == InitFront /\ [][NextFront]_vars

\* C16: every play_video_external request carries the metadata (title,
\* year, kind) of the content that was selected when the stream was chosen.
C16_RequestCarriesMetadata ==
    \A i \in 1..Len(invokeLog) :
        /\ "metadata" \in DOMAIN invokeLog[i].args
        /\ invokeLog[i].selected # NoContent =>
              invokeLog[i].args = PlayArgsWithMetadata(invokeLog[i].args.streamUrl,
                                                       invokeLog[i].selected)

\* the names of the contents that were selected when a swarm stream was
\* sent to play_video_external
SwarmContentNames ==
    {invokeLog[i].selected.name :
        i \in {k \in 1..Len(invokeLog) :
                 StartsWith(invokeLog[k].args.streamUrl, Str_magnet)}}

\* C27: when the built-in player opens on the local address returned for a
\* swarm stream, its title begins with the name of the content that was
\* selected for that stream, never with "Unknown Movie".
C27_PeerflixTitle ==
    (videoTitle # <<>> /\ videoTitle[3] = "Torrent Stream (Peerflix)") =>
        /\ videoTitle[1] # "Unknown Movie"
        /\ videoTitle[1] \in SwarmContentNames

\* the URL starts with http:// or https:// and contains ".mp4", ".mkv",
\* ".webm" or "video"
HttpVideo(u) ==
    /\ \/ StartsWith(u, <<"h","t","t","p",":","/","/">>)
       \/ StartsWith(u, <<"h","t","t","p","s",":","/","/">>)
    /\ \E mark \in {<<".","m","p","4">>, <<".","m","k","v">>,
                    <<".","w","e","b","m">>, <<"v","i","d","e","o">>} :
          Includes(u, mark)

C33_StreamsOfCurrentContent ==
    \A i \in 1..Len(currentStreams) :
        currentStreams[i].imdbId = currentContent.id

\* the same, for the streams the open modal lists under a content's title
C33_ShownStreamsOfCurrentContent ==
    (modalOpen /\ "list" \in modalPane /\ currentContent # NoContent) =>
        \A i \in 1..Len(currentStreams) :
            currentStreams[i].imdbId = currentContent.id

-----------------------------------------------------------------------------
(* The media title play_video_external hands to the player                 *)
(* VIDEO_PLAYBACK_FIXES_SUMMARY.md:44-56                                   *)

TitleChars == {"A", "b", " ", "(", ")"}

Titles == SeqsUpTo(TitleChars, MaxTitleLen)

Str_1972 == <<"1","9","7","2">>

\* the year of the metadata, an Option<String>
Years == {<<>>, <<Str_1972>>, <<<<"N","/","A">>>>, <<<<>>>>}

FormatTitleYearNoParens(title, year) == title \o <<" ">> \o year

\* format!("{} ({})", meta.title, meta.year)
FormatTitleYear(title, year) == title \o <<" ", "(">> \o year \o <<")">>

\* the title alone when the metadata has no year
media_title(meta) ==
    IF meta.year # <<>>
    THEN FormatTitleYear(meta.title, meta.year[1])
    ELSE meta.title

InitTitle ==
    /\ titleMeta \in [title : Titles, year : Years]
    /\ mediaTitle = <<>>
    /\ titlePc = "input"
    /\ RankIdle
    /\ PlayIdle /\ installed = {}
    /\ CatIdle
    /\ HashIdle
    /\ FrontIdle
    /\ ExtIdle

ComputeMediaTitle ==
    /\ titlePc = "input"
    /\ mediaTitle' = media_title(titleMeta)
    /\ titlePc' = "done"
    /\ UNCHANGED <<titleMeta, rankVars, playVars, catVars, hashVars, frontVars, extVars>>

NextTitle == ComputeMediaTitle

SpecTitle == InitTitle /\ [][NextTitle]_vars

-----------------------------------------------------------------------------
(* preprocessSearchTerm: app.js:636-657                                    *)

coreVars == <<rankVars, playVars, catVars, hashVars, titleVars, frontVars>>

\* what the actions of each specification below leave alone
termOthers == <<coreVars, inputVars, loadVars, lateVars>>
inputOthers == <<coreVars, termVars, loadVars, lateVars>>
loadOthers == <<coreVars, termVars, inputVars, lateVars>>
padOthers == <<coreVars, termVars, inputVars, loadVars, cwVars>>
cwOthers == <<coreVars, termVars, inputVars, loadVars, padVars>>

CoreIdle ==
    /\ RankIdle
    /\ PlayIdle /\ installed = {}
    /\ CatIdle
    /\ HashIdle
    /\ TitleIdle
    /\ FrontIdle

Articles == {Str_the, Str_a, Str_an}

TermWords ==
    { <<"c","a","r","s">>, <<"C","a","r","s">>, <<"c","a","r">>,
      <<"m","o","v","i","e","s">>, <<"s","h","o","w","s">>,
      <<"s","e","r","i","e","s">>, Str_the,
      <<"c","o","n","s","t","r","u","c","t","o","r">> }

\* the articles arts, each followed by gap, then the word
RECURSIVE WithArticles(_, _, _)
WithArticles(arts, gap, word) ==
    IF arts = <<>> THEN word
    ELSE Head(arts) \o gap \o WithArticles(Tail(arts), gap, word)

\* the queries: up to MaxArticles articles before a word, one or two
\* blanks between them, with or without white space around
TermQueries ==
    { lead \o WithArticles(arts, gap, word) \o lead :
        lead \in {<<>>, <<" ">>},
        arts \in {<<>>} \cup SeqsUpTo(Articles, MaxArticles),
        gap \in {<<" ">>, <<" ", " ">>},
        word \in TermWords }

InitTerm ==
    /\ termQuery \in TermQueries
    /\ termProcessed = <<>>
    /\ termPc = "input"
    /\ CoreIdle
    /\ InputIdle
    /\ LoadIdle
    /\ LateIdle

PreprocessSearchTerm ==
    /\ termPc = "input"
    /\ termProcessed' = preprocessSearchTerm(termQuery)
    /\ termPc' = "done"
    /\ UNCHANGED <<termQuery, termOthers>>

NextTerm == PreprocessSearchTerm

SpecTerm == InitTerm /\ [][NextTerm]_vars

\* the string without its one leading article and the white space after it
OneArticleRemoved(s) ==
    IF \E art \in Articles : StartsWith(s, art \o <<" ">>)
    THEN LET art == CHOOSE a \in Articles : StartsWith(s, a \o <<" ">>)
         IN  TrimStart(SubSeq(s, Len(art) + 1, Len(s)))
    ELSE s

\* the fixed plural table
PluralTable ==
    [k \in {<<"c","a","r","s">>, <<"m","o","v","i","e","s">>,
            <<"s","h","o","w","s">>, <<"s","e","r","i","e","s">>} |->
        IF k = <<"s","e","r","i","e","s">> THEN k ELSE SubSeq(k, 1, Len(k) - 1)]

\* C26: preprocessSearchTerm returns the query lower-cased and trimmed,
\* without its one leading article (a second article stays), replaced by
\* its singular only when the whole of what remains is a key of the plural
\* table.
C26_Preprocess ==
    termPc = "done" =>
        LET rest == OneArticleRemoved(Trim(ToLowerCase(termQuery)))
        IN  termProcessed = IF rest \in DOMAIN PluralTable
                            THEN PluralTable[rest] ELSE rest

-----------------------------------------------------------------------------
(* Frontend: the search box.  app.js:444-634                               *)

\* the delay of the debounce timer, 300 ms
DebounceDelay == 3

\* what the user may have in the search box
InputValues == {<<>>, <<" ">>, <<"a">>, <<"a", "b">>}

\* what search_content can answer to a query: an error, nothing, or
\* results, which stand here for the list ranked for that query
SearchOutcomes(query) == {Err("search failed"), Ok(<<>>), Ok(<<query>>)}

InitInput ==
    /\ InputIdle
    /\ TermIdle
    /\ CoreIdle
    /\ LoadIdle
    /\ LateIdle

\* handleSearchInput
HandleSearchInput(v) ==
    /\ inputCount < MaxInputs
    /\ v # inputValue
    /\ inputCount' = inputCount + 1
    /\ inputValue' = v
    /\ lastInputAt' = now
    /\ searchQuery' = Trim(v)
    /\ IF Trim(v) = <<>>
       THEN /\ searchSection' = "hidden"
            /\ UNCHANGED <<searchTimeout, timers, timerCount>>
       ELSE /\ timerCount' = timerCount + 1
            /\ searchTimeout' = timerCount + 1
            /\ timers' = {t \in timers : t.id # searchTimeout}
                         \cup {[id |-> timerCount + 1, query |-> Trim(v),
                                due |-> now + DebounceDelay]}
            /\ UNCHANGED searchSection
    /\ UNCHANGED <<now, searchCalls, inFlight, searchResults, isSearching>>
    /\ UNCHANGED inputOthers

\* the timer callback: performSearch(query) up to the await of search_content
TimerFires(t) ==
    /\ t \in timers
    /\ now >= t.due
    /\ timers' = timers \ {t}
    /\ searchSection' = "shown"
    /\ isSearching' = TRUE
    /\ searchCalls' = Append(searchCalls, [query |-> t.query, at |-> now])
    /\ inFlight' = inFlight \cup {[n |-> Len(searchCalls) + 1, query |-> t.query]}
    /\ UNCHANGED <<now, inputValue, searchQuery, searchTimeout, timerCount,
                   lastInputAt, searchResults, inputCount>>
    /\ UNCHANGED inputOthers

\* performSearch after the await
SearchReturns(s, r) ==
    /\ s \in inFlight
    /\ inFlight' = inFlight \ {s}
    /\ searchResults' = IF r.ok THEN r.value ELSE searchResults
    /\ isSearching' = FALSE
    /\ UNCHANGED <<now, inputValue, searchQuery, searchTimeout, timers, timerCount,
                   lastInputAt, searchCalls, searchSection, inputCount>>
    /\ UNCHANGED inputOthers

\* clearSearch
ClearSearch ==
    /\ inputValue # <<>>
    /\ inputValue' = <<>>
    /\ searchQuery' = <<>>
    /\ searchResults' = <<>>
    /\ isSearching' = FALSE
    /\ timers' = {t \in timers : t.id # searchTimeout}
    /\ searchTimeout' = 0
    /\ searchSection' = "hidden"
    /\ UNCHANGED <<now, timerCount, lastInputAt, searchCalls, inFlight, inputCount>>
    /\ UNCHANGED inputOthers

\* 100 ms pass; a timer that is due fires first
Tick ==
    /\ now < MaxTime
    /\ \A t \in timers : t.due > now
    /\ now' = now + 1
    /\ UNCHANGED <<inputValue, searchQuery, searchTimeout, timers, timerCount,
                   lastInputAt, searchCalls, inFlight, searchResults, isSearching,
                   searchSection, inputCount>>
    /\ UNCHANGED inputOthers

NextInput ==
    \/ \E v \in InputValues : HandleSearchInput(v)
    \/ \E t \in timers : TimerFires(t)
    \/ \E s \in inFlight : \E r \in SearchOutcomes(s.query) : SearchReturns(s, r)
    \/ ClearSearch
    \/ Tick

SpecInput == InitInput /\ [][NextInput]_vars

\* C28: at most one search timer is pending, and every search_content call
\* is issued 300 ms after the last input event, for the value the search
\* box then holds: a value that was superseded within the 300 ms has
\* triggered no search.
C28_Debounce ==
    /\ [](Cardinality(timers) <= 1)
    /\ [][Len(searchCalls') > Len(searchCalls) =>
              /\ searchCalls'[Len(searchCalls')].query = searchQuery
              /\ now = lastInputAt + DebounceDelay]_vars

\* the call numbered m has been answered
Answered(m) == \A f \in inFlight : f.n # m

\* C32: the response to a search never replaces, in appState.searchResults,
\* the results of a newer search for another query whose own response has
\* already arrived.
C32_NoLateOverwrite ==
    [][\A s \in inFlight :
          (/\ inFlight' = inFlight \ {s}
           /\ \E m \in (s.n + 1)..Len(searchCalls) :
                 /\ Answered(m)
                 /\ searchCalls[m].query # s.query
                 /\ searchResults = <<searchCalls[m].query>>)
          => searchResults' = searchResults]_vars

\* C34: while the search box is empty the search section is hidden and no
\* search_content call is issued.
C34_EmptyInputNoSearch ==
    /\ [](searchQuery = <<>> => searchSection = "hidden")
    /\ [][searchQuery = <<>> => searchCalls' = searchCalls]_vars

\* C35: when clearSearch has run and no input has come since (the box and
\* appState.searchResults are empty, isSearching is false, searchTimeout is
\* null), the response of a search still in flight leaves searchResults
\* empty and isSearching false.
C35_ClearedStaysCleared ==
    [][(/\ inputValue = <<>>
        /\ searchQuery = <<>>
        /\ searchTimeout = 0
        /\ searchResults = <<>>
        /\ ~isSearching
        /\ inFlight' # inFlight
        /\ inFlight' \subseteq inFlight)
       => (searchResults' = <<>> /\ ~isSearching')]_vars

-----------------------------------------------------------------------------
(* Frontend: loading the sections.  app.js:900-1095                        *)

\* const maxRetries = 2 (app.js:962)
maxRetries == 2

\* Math.pow(2, retryCount) * 1000 (app.js:1021)
RetryDelay(retryCount) == (2 ^ retryCount) * 1000

\* what a fetch_popular_* command can answer
LoadOutcomes == {Err("fetch failed"), Ok(<<>>), Ok(<<"tt1">>)}

\* mutant of Loaded: an empty list accepted for the movies too
LoadedAllowEmpty(s, r) == r.ok

\* the try block of the section runs to its end: loadMovies throws on an
\* empty list (app.js:978-980), loadSeries and loadAnime display it
Loaded(s, r) == r.ok /\ (s = "movies" => r.value # <<>>)

InitLoad ==
    /\ LoadIdle
    /\ TermIdle
    /\ InputIdle
    /\ CoreIdle
    /\ LateIdle

\* loadAllContent up to the await of Promise.allSettled: the three loads
\* run up to their own await
LoadAllContent ==
    /\ allPc = "idle"
    /\ allPc' = "waiting"
    /\ isLoading' = TRUE
    /\ globalLoading' = TRUE
    /\ secPc' = [s \in Sections |-> "fetching"]
    /\ secPanel' = [s \in Sections |-> {"loading"}]
    /\ secRetryCount' = [s \in Sections |-> 0]
    /\ secFetches' = [s \in Sections |-> 1]
    /\ secDelays' = [s \in Sections |-> <<>>]
    /\ secPromise' = [s \in Sections |-> "pending"]
    /\ UNCHANGED <<secLast, reloads>>
    /\ UNCHANGED loadOthers

\* loadMovies, loadSeries, loadAnime after the await
FetchReturns(s, r) ==
    /\ secPc[s] = "fetching"
    /\ secLast' = [secLast EXCEPT ![s] = r]
    /\ IF Loaded(s, r)
       THEN /\ secPanel' = [secPanel EXCEPT ![s] = (@ \ {"loading"}) \cup {"grid"}]
            /\ secPc' = [secPc EXCEPT ![s] = "settled"]
            /\ UNCHANGED secDelays
       ELSE IF s = "movies" /\ secRetryCount[s] < maxRetries
       THEN /\ secPanel' = [secPanel EXCEPT ![s] = @ \ {"loading"}]
            /\ secPc' = [secPc EXCEPT ![s] = "retryScheduled"]
            /\ secDelays' = [secDelays EXCEPT
                               ![s] = Append(@, RetryDelay(secRetryCount[s]))]
       ELSE /\ secPanel' = [secPanel EXCEPT ![s] = (@ \ {"loading"}) \cup {"error"}]
            /\ secPc' = [secPc EXCEPT ![s] = "settled"]
            /\ UNCHANGED secDelays
    /\ secPromise' = [secPromise EXCEPT
                        ![s] = IF @ = "pending" THEN "settled" ELSE @]
    /\ UNCHANGED <<isLoading, globalLoading, allPc, secRetryCount, secFetches, reloads>>
    /\ UNCHANGED loadOthers

\* the retry timer: loadMovies(retryCount + 1) up to its await
RetryTimerFires(s) ==
    /\ secPc[s] = "retryScheduled"
    /\ secPc' = [secPc EXCEPT ![s] = "fetching"]
    /\ secPanel' = [secPanel EXCEPT ![s] = {"loading"}]
    /\ secRetryCount' = [secRetryCount EXCEPT ![s] = @ + 1]
    /\ secFetches' = [secFetches EXCEPT ![s] = @ + 1]
    /\ UNCHANGED <<isLoading, globalLoading, allPc, secDelays, secLast,
                   secPromise, reloads>>
    /\ UNCHANGED loadOthers

\* loadAllContent after Promise.allSettled
AllSettled ==
    /\ allPc = "waiting"
    /\ \A s \in Sections : secPromise[s] = "settled"
    /\ allPc' = "done"
    /\ isLoading' = FALSE
    /\ globalLoading' = FALSE
    /\ UNCHANGED <<secPc, secPanel, secRetryCount, secFetches, secDelays,
                   secLast, secPromise, reloads>>
    /\ UNCHANGED loadOthers

\* retrySection: the retry button of a section's error panel
RetrySection(s) ==
    /\ reloads < MaxReloads
    /\ "error" \in secPanel[s]
    /\ reloads' = reloads + 1
    /\ secPc' = [secPc EXCEPT ![s] = "fetching"]
    /\ secPanel' = [secPanel EXCEPT ![s] = {"loading"}]
    /\ secRetryCount' = [secRetryCount EXCEPT ![s] = 0]
    /\ secFetches' = [secFetches EXCEPT ![s] = 1]
    /\ secDelays' = [secDelays EXCEPT ![s] = <<>>]
    /\ UNCHANGED <<isLoading, globalLoading, allPc, secLast, secPromise>>
    /\ UNCHANGED loadOthers

NextLoad ==
    \/ LoadAllContent
    \/ \E s \in Sections : \E r \in LoadOutcomes : FetchReturns(s, r)
    \/ \E s \in Sections : RetryTimerFires(s)
    \/ AllSettled
    \/ \E s \in Sections : RetrySection(s)

SpecLoad == InitLoad /\ [][NextLoad]_vars

C36_FinishedMeansSettled ==
    [][(isLoading /\ ~isLoading' /\ reloads = 0) =>
          /\ ~globalLoading'
          /\ \A s \in Sections :
                /\ secPc'[s] = "settled"
                /\ secPanel'[s] \cap {"grid", "error"} # {}]_vars

-----------------------------------------------------------------------------
(* GamepadController: controller.js:42-114                                 *)

MaxPolls == 3

\* this.buttons, its first two entries: the names in the order of
\* Object.entries, the index of a name is its position minus one
PadButtons == <<"A", "B">>

ButtonNames == {PadButtons[i] : i \in 1..Len(PadButtons)}

\* gamepad.buttons of a gamepad object: the pressed flag of each button it
\* has, by index; the last one is a gamepad that has no second button
PadSamples ==
    [ p \in Pads |->
        IF p = 0
        THEN {<<FALSE, FALSE>>, <<TRUE, FALSE>>, <<TRUE, TRUE>>, <<TRUE>>}
        ELSE {<<FALSE, FALSE>>, <<TRUE, FALSE>>} ]

\* what navigator.getGamepads() can return: per index a gamepad or null
Snapshots ==
    { snap \in [Pads -> {NoGamepad} \cup {<<g>> : g \in UNION {PadSamples[p] : p \in Pads}}] :
        \A p \in Pads : snap[p] # NoGamepad => snap[p][1] \in PadSamples[p] }

\* button ? button.pressed : false
PressedAt(buttonsArr, i) == IF i <= Len(buttonsArr) THEN buttonsArr[i] ELSE FALSE

\* prevStates[name], undefined (falsy) when nothing was recorded
PrevState(prevStates, name) ==
    IF prevStates = NoGamepad THEN FALSE ELSE prevStates[1][name]

\* processButtons reporting every pressed button, with no look at prevStates
ProcessButtonsLevel(prevStates, buttonsArr) ==
    [ currentStates |-> [n \in ButtonNames |->
                            LET i == CHOOSE k \in 1..Len(PadButtons) : PadButtons[k] = n
                            IN  PressedAt(buttonsArr, i)],
      presses |-> SelectSeq(PadButtons,
                    LAMBDA n : LET i == CHOOSE k \in 1..Len(PadButtons) : PadButtons[k] = n
                               IN  PressedAt(buttonsArr, i)) ]

\* processButtons: the states it records and the names it hands to
\* handleButtonPress, in order
ProcessButtons(prevStates, buttonsArr) ==
    [ currentStates |-> [n \in ButtonNames |->
                            LET i == CHOOSE k \in 1..Len(PadButtons) : PadButtons[k] = n
                            IN  PressedAt(buttonsArr, i)],
      presses |-> SelectSeq(PadButtons,
                    LAMBDA n : LET i == CHOOSE k \in 1..Len(PadButtons) : PadButtons[k] = n
                               IN  PressedAt(buttonsArr, i) /\ ~PrevState(prevStates, n)) ]

InitPad ==
    /\ PadIdle
    /\ CwIdle
    /\ CoreIdle
    /\ TermIdle
    /\ InputIdle
    /\ LoadIdle

\* the gamepadconnected listener
GamepadConnected(p, g) ==
    /\ gamepads[p] = NoGamepad
    /\ gamepads' = [gamepads EXCEPT ![p] = <<g>>]
    /\ UNCHANGED <<buttonStates, pressLog, polled>>
    /\ UNCHANGED padOthers

\* the gamepaddisconnected listener
GamepadDisconnected(p) ==
    /\ gamepads[p] # NoGamepad
    /\ gamepads' = [gamepads EXCEPT ![p] = NoGamepad]
    /\ UNCHANGED <<buttonStates, pressLog, polled>>
    /\ UNCHANGED padOthers

\* the handleButtonPress calls of one poll, index after index
RECURSIVE PollPresses(_, _, _)
PollPresses(held, p, k) ==
    IF p \notin Pads THEN <<>>
    ELSE (IF held[p] = NoGamepad THEN <<>>
          ELSE LET names == ProcessButtons(buttonStates[p], held[p][1]).presses
               IN  [i \in 1..Len(names) |->
                       [poll |-> k, pad |-> p, name |-> names[i]]])
         \o PollPresses(held, p + 1, k)

\* poll: one animation frame
Poll(snap) ==
    /\ Len(polled) < MaxPolls
    /\ LET held == [p \in Pads |-> IF snap[p] # NoGamepad THEN snap[p]
                                   ELSE gamepads[p]]
           k == Len(polled) + 1
       IN  /\ gamepads' = held
           /\ buttonStates' =
                 [p \in Pads |->
                     IF held[p] = NoGamepad THEN buttonStates[p]
                     ELSE <<ProcessButtons(buttonStates[p], held[p][1]).currentStates>>]
           /\ pressLog' = pressLog \o PollPresses(held, 0, k)
           /\ polled' = Append(polled,
                 [p \in Pads |->
                     IF held[p] = NoGamepad THEN NoGamepad
                     ELSE <<{PadButtons[i] : i \in {j \in 1..Len(PadButtons) :
                                                      PressedAt(held[p][1], j)}}>>])
    /\ UNCHANGED padOthers

NextPad ==
    \/ \E p \in Pads : \E g \in PadSamples[p] : GamepadConnected(p, g)
    \/ \E p \in Pads : GamepadDisconnected(p)
    \/ \E snap \in Snapshots : Poll(snap)

SpecPad == InitPad /\ [][NextPad]_vars

\* the button was pressed at the poll of the index before poll k (not
\* pressed when there is none)
PressedBefore(k, p, n) ==
    \E j \in 1..(k - 1) :
        /\ polled[j][p] # NoGamepad
        /\ \A i \in (j + 1)..(k - 1) : polled[i][p] = NoGamepad
        /\ n \in polled[j][p][1]

PressCalls(k, p, n) ==
    Cardinality({i \in 1..Len(pressLog) :
                    pressLog[i] = [poll |-> k, pad |-> p, name |-> n]})

\* C31: at every poll of a gamepad, handleButtonPress is called exactly once
\* for each button that is pressed and was not pressed at the previous poll
\* of that gamepad, and not at all for any other button: a button held down
\* across polls triggers nothing until it was released and pressed again.
C31_RisingEdge ==
    \A k \in 1..Len(polled) : \A p \in Pads : \A n \in ButtonNames :
        PressCalls(k, p, n) =
            IF /\ polled[k][p] # NoGamepad
               /\ n \in polled[k][p][1]
               /\ ~PressedBefore(k, p, n)
            THEN 1 ELSE 0

\* C31 witness: a button went down at the first poll and was held over the
\* next two while a second button went down and up: one call was made for
\* each button, none for the button held
C31_Witness ==
    /\ Len(polled) = 3
    /\ polled[1][0] = <<{"A"}>>
    /\ polled[2][0] = <<{"A", "B"}>>
    /\ polled[3][0] = <<{"A"}>>
    /\ PressCalls(1, 0, "A") = 1
    /\ PressCalls(2, 0, "A") = 0
    /\ PressCalls(2, 0, "B") = 1
    /\ PressCalls(3, 0, "A") = 0

-----------------------------------------------------------------------------
(* addToContinueWatching: app.js:1752-1774                                 *)

MaxAdds == 12

MaxIds == 11

\* slice(0, 10)
KeepLatest == 10

CwNames == {"old", "new"}

\* list.slice(0, n)
SliceTo(list, n) == SubSeq(list, 1, IF Len(list) < n THEN Len(list) ELSE n)

\* findIndex(item => item.id === content.id): a position from 1, 0 for -1
FindIndexById(list, id) ==
    IF \E i \in 1..Len(list) : list[i].id = id
    THEN CHOOSE i \in 1..Len(list) :
            /\ list[i].id = id
            /\ \A j \in 1..(i - 1) : list[j].id # id
    ELSE 0

\* addToContinueWatching moving an entry that exists to the front
addToContinueWatchingMoveToFront(list, continueItem) ==
    LET rest == SelectSeq(list, LAMBDA item : item.id # continueItem.id)
    IN  SliceTo(<<continueItem>> \o rest, KeepLatest)

\* the list addToContinueWatching leaves in appState.continueWatching
addToContinueWatching(list, continueItem) ==
    LET existingIndex == FindIndexById(list, continueItem.id)
    IN  IF existingIndex >= 1
        THEN [list EXCEPT ![existingIndex] = continueItem]
        ELSE SliceTo(<<continueItem>> \o list, KeepLatest)

CwIds(list) == {list[i].id : i \in 1..Len(list)}

\* the ids a call is made with: those in the list and the lowest one not in it
AddableIds ==
    CwIds(continueWatching)
    \cup (IF (1..MaxIds) \subseteq CwIds(continueWatching) THEN {}
          ELSE {CHOOSE id \in (1..MaxIds) \ CwIds(continueWatching) :
                    \A other \in (1..MaxIds) \ CwIds(continueWatching) : id <= other})

InitCw ==
    /\ CwIdle
    /\ PadIdle
    /\ CoreIdle
    /\ TermIdle
    /\ InputIdle
    /\ LoadIdle

AddToContinueWatching(content) ==
    /\ cwAdds < MaxAdds
    /\ cwAdds' = cwAdds + 1
    /\ continueWatching' = addToContinueWatching(continueWatching, content)
    /\ UNCHANGED cwOthers

NextCw ==
    \E id \in AddableIds : \E name \in CwNames :
        AddToContinueWatching([id |-> id, name |-> name])

SpecCw == InitCw /\ [][NextCw]_vars

CwIdSeq(list) == [i \in 1..Len(list) |-> list[i].id]

\* C39: the list never has more than 10 entries nor two entries with one id;
\* a call with an id that is present leaves the sequence of ids as it was
\* and changes no other entry, and any other call puts its id first, before
\* the earlier entries in their order.
C39_ContinueWatching ==
    /\ [](/\ Len(continueWatching) <= 10
          /\ \A i, j \in 1..Len(continueWatching) :
                continueWatching[i].id = continueWatching[j].id => i = j)
    /\ [][cwAdds' # cwAdds =>
            LET old == continueWatching
                new == continueWatching'
            IN  \/ /\ CwIdSeq(new) = CwIdSeq(old)
                   /\ Cardinality({i \in 1..Len(old) : new[i] # old[i]}) <= 1
                \/ /\ new # <<>>
                   /\ new[1].id \notin CwIds(old)
                   /\ Len(new) = (IF Len(old) < 10 THEN Len(old) + 1 ELSE 10)
                   /\ \A i \in 2..Len(new) : new[i] = old[i - 1]]_vars

\* C39 witness: the list is full, an eleventh id has pushed the oldest out,
\* and the entry in the middle was replaced where it stood
C39_Witness ==
    /\ Len(continueWatching) = 10
    /\ continueWatching[1].id = 11
    /\ continueWatching[10].id = 2
    /\ continueWatching[5] = [id |-> 7, name |-> "new"]
    /\ \A i \in 1..10 : i # 5 => continueWatching[i].name = "old"
    /\ cwAdds = 12

====
